---- MODULE Spec2Model ----
(***************************************************************************)
(* A model of the GraphQL operation validator: the schema-aware walker of  *)
(* src/ast/operation_visitor.rs with its five context stacks, and          *)
(* validate() of src/validation/validate.rs running a plan of rules.       *)
(***************************************************************************)
EXTENDS Integers, Sequences, FiniteSets, TLC

VARIABLES
    schema,                     \* OperationVisitorContext.schema
    operation,                  \* OperationVisitorContext.operation (the document)
    known_fragments,            \* OperationVisitorContext.known_fragments
    type_stack,
    parent_type_stack,
    input_type_stack,
    type_literal_stack,
    input_type_literal_stack,
    kont,                       \* the walker's pending work (its call stack)
    trace,                      \* the hook calls made so far, with the context they saw
    panicked,                   \* a hook panicked and the walk was unwound
    unwound,                    \* the scoped calls a panic unwound, innermost first
    classified,                 \* the type definitions classified so far, with the answers
    validation_plan,            \* ValidationPlan.rules
    outcome,                    \* selects what the rules outside the model return
    vpc,                        \* where validate() is
    rule_index,                 \* the rule flat_map runs next
    validation_errors,          \* the errors collected so far
    fragments,                  \* ValidationContext.fragments
    hash_seed,                  \* the iteration order of the call's hash maps
    call,                       \* which call of validate this is
    first_result,               \* what the first call returned
    spread_path,                \* cycle detection: the expansion stack
    visited_frags,              \* cycle detection: the fragments expanded so far
    cyc_kont,                   \* cycle detection: the pending work
    rule_errors,                \* the errors of the rule that is running
    plan_kind,                  \* how the plan was built
    produced                    \* what each rule run so far returned, in the order run

walkVars == <<schema, operation, known_fragments, type_stack, parent_type_stack,
              input_type_stack, type_literal_stack, input_type_literal_stack,
              kont, trace, panicked, unwound, classified>>

valVars == <<validation_plan, outcome, vpc, rule_index, validation_errors, fragments,
             hash_seed, call, first_result, spread_path, visited_frags, cyc_kont,
             rule_errors, plan_kind, produced>>

vars == <<walkVars, valVars>>

(***************************************************************************)
(* Bounds of the generated documents.                                      *)
(***************************************************************************)
MaxDepth == 2       \* nesting depth of selection sets below a definition
MaxWidth == 2       \* selections per selection set
MaxValueDepth == 1  \* nesting depth of list and object values

(***************************************************************************)
(* Option<T>: None is a record of its own, Some(x) is x.                   *)
(***************************************************************************)
None == [k |-> "None"]

IsNone(x) == x.k = "None"

IsSome(x) == x.k # "None"

RECURSIVE Concat(_)
Concat(seqs) == IF seqs = <<>> THEN <<>> ELSE Head(seqs) \o Concat(Tail(seqs))

Last(s) == s[Len(s)]

Front(s) == SubSeq(s, 1, Len(s) - 1)

(***************************************************************************)
(* Type literals: Named(name), List(Type), NonNull(Type).                  *)
(***************************************************************************)
NamedType(n) == [k |-> "NamedType", name |-> n]

ListType(t) == [k |-> "ListType", of |-> t]

NonNullType(t) == [k |-> "NonNullType", of |-> t]

RECURSIVE inner_type(_)
inner_type(t) == IF t.k = "NamedType" THEN t.name ELSE inner_type(t.of)

(***************************************************************************)
(* The schema documents.                                                   *)
(***************************************************************************)
InputValue(n, t) == [k |-> "InputValue", name |-> n, value_type |-> t]

SchemaField(n, args, t) ==
    [k |-> "FieldDefinition", name |-> n, arguments |-> args, field_type |-> t]

DogFields ==
    << SchemaField("name", <<>>, NamedType("String")),
       SchemaField("nickname", <<>>, NamedType("String")),
       SchemaField("barkVolume", <<>>, NamedType("Int")),
       SchemaField("doesKnow",
                   << InputValue("command", NamedType("Command")),
                      InputValue("tags", ListType(NamedType("String"))),
                      InputValue("filter", NonNullType(NamedType("Filter"))) >>,
                   NonNullType(NamedType("Boolean"))),
       SchemaField("mother", <<>>, NamedType("Dog")),
       SchemaField("father", <<>>, NamedType("Dog")),
       SchemaField("friends", <<>>, ListType(NonNullType(NamedType("Pet")))) >>

BaseTypes ==
    << [k |-> "Object", name |-> "Query",
        fields |-> << SchemaField("dog", <<>>, NamedType("Dog")),
                      SchemaField("pet", <<>>, NamedType("Pet")),
                      SchemaField("being", <<>>, NamedType("Being")) >>],
       [k |-> "Object", name |-> "Dog", fields |-> DogFields],
       [k |-> "Interface", name |-> "Being",
        fields |-> << SchemaField("name", <<>>, NamedType("String")) >>],
       [k |-> "Union", name |-> "Pet", types |-> <<"Dog">>],
       [k |-> "Scalar", name |-> "String"],
       [k |-> "Scalar", name |-> "Int"],
       [k |-> "Scalar", name |-> "Boolean"],
       [k |-> "Enum", name |-> "Command", values |-> <<"SIT", "DOWN">>],
       [k |-> "InputObject", name |-> "Filter",
        fields |-> << InputValue("name", NamedType("String")),
                      InputValue("tags", ListType(NamedType("String"))),
                      InputValue("nested", NamedType("Filter")) >>] >>

RootTypes ==
    << [k |-> "Object", name |-> "Mutation",
        fields |-> << SchemaField("dog", <<>>, NamedType("Dog")) >>],
       [k |-> "Object", name |-> "Subscription",
        fields |-> << SchemaField("dog", <<>>, NamedType("Dog")) >>] >>

SchemaDirectives ==
    << [k |-> "DirectiveDefinition", name |-> "include",
        arguments |-> << InputValue("if", NonNullType(NamedType("Boolean"))) >>],
       [k |-> "DirectiveDefinition", name |-> "tag",
        arguments |-> << InputValue("names", ListType(NamedType("String"))),
                         InputValue("filter", NamedType("Filter")) >>] >>

\* a schema with query, mutation and subscription roots
TestSchema == [types |-> BaseTypes \o RootTypes, directives |-> SchemaDirectives]

\* a schema whose only root is Query
QueryOnlySchema == [types |-> BaseTypes, directives |-> SchemaDirectives]

\* the schemas of the walks whose lookups return
Schemas == {TestSchema, QueryOnlySchema}

\* a schema without any root type
NoRootSchema == [types |-> Tail(BaseTypes), directives |-> SchemaDirectives]

(***************************************************************************)
(* Schema index (spec 4.A).                                                *)
(***************************************************************************)
FindFirst(s, n) ==
    IF \E i \in 1..Len(s) : s[i].name = n
    THEN s[CHOOSE i \in 1..Len(s) : s[i].name = n /\ \A j \in 1..(i - 1) : s[j].name # n]
    ELSE None

type_by_name(sch, n) == FindFirst(sch.types, n)

directive_by_name(sch, n) == FindFirst(sch.directives, n)

query_type(sch) == type_by_name(sch, "Query")

mutation_type(sch) == type_by_name(sch, "Mutation")

subscription_type(sch) == type_by_name(sch, "Subscription")

find_field(t, n) ==
    IF t.k \in {"Object", "Interface"}
    THEN FindFirst(t.fields, n)
    ELSE None

field_by_name(t, n) == find_field(t, n)

input_field_by_name(t, n) ==
    IF t.k = "InputObject" THEN FindFirst(t.fields, n) ELSE None

(***************************************************************************)
(* The classification of type definitions (TypeDefinitionExtension) and    *)
(* CompositeType.                                                          *)
(***************************************************************************)
is_abstract_type(t) ==
    CASE t.k = "Object" -> FALSE
      [] t.k = "Interface" -> TRUE
      [] t.k = "Union" -> TRUE
      [] t.k = "Scalar" -> FALSE
      [] t.k = "Enum" -> FALSE
      [] t.k = "InputObject" -> FALSE

is_leaf_type(t) ==
    CASE t.k = "Object" -> FALSE
      [] t.k = "Interface" -> FALSE
      [] t.k = "Union" -> FALSE
      [] t.k = "Scalar" -> TRUE
      [] t.k = "Enum" -> TRUE
      [] t.k = "InputObject" -> FALSE

is_input_type(t) ==
    CASE t.k = "Object" -> FALSE
      [] t.k = "Interface" -> FALSE
      [] t.k = "Union" -> FALSE
      [] t.k = "Scalar" -> TRUE
      [] t.k = "Enum" -> TRUE
      [] t.k = "InputObject" -> TRUE

is_composite_type(t) ==
    CASE t.k = "Object" -> TRUE
      [] t.k = "Interface" -> TRUE
      [] t.k = "Union" -> TRUE
      [] t.k = "Scalar" -> FALSE
      [] t.k = "Enum" -> FALSE
      [] t.k = "InputObject" -> FALSE

\* CompositeType: a variant around the object, interface or union type
CompositeType(variant, t) == [k |-> "CompositeType", variant |-> variant, of |-> t]

\* a conversion that has no variant for unions
from_type_definition_without_union(t) ==
    CASE t.k = "Object" -> [k |-> "Some", v |-> CompositeType("Object", t)]
      [] t.k = "Interface" -> [k |-> "Some", v |-> CompositeType("Interface", t)]
      [] OTHER -> None

from_type_definition(t) ==
    CASE t.k = "Object" -> [k |-> "Some", v |-> CompositeType("Object", t)]
      [] t.k = "Interface" -> [k |-> "Some", v |-> CompositeType("Interface", t)]
      [] t.k = "Union" -> [k |-> "Some", v |-> CompositeType("Union", t)]
      [] OTHER -> None

\* TypeDefinitionExtension for CompositeType
composite_name(c) == c.of.name

composite_is_abstract_type(c) ==
    CASE c.variant = "Object" -> FALSE
      [] c.variant = "Interface" -> TRUE
      [] c.variant = "Union" -> TRUE

\* what the calls return for a type definition
Classification(t) ==
    [of |-> t,
     is_abstract_type |-> is_abstract_type(t),
     is_leaf_type |-> is_leaf_type(t),
     is_input_type |-> is_input_type(t),
     is_composite_type |-> is_composite_type(t),
     composite |-> from_type_definition(t)]

(***************************************************************************)
(* Operation documents.  Values, selections and documents are generated    *)
(* from menus: a node of the menu is picked by a rotation r, its children  *)
(* by the rotations that follow, down to the depth and width bounds.       *)
(***************************************************************************)
Directive(n, args) == [name |-> n, arguments |-> args]

Field(n, args, dirs, sels) ==
    [k |-> "Field", alias |-> None, name |-> n, arguments |-> args, directives |-> dirs,
     selection_set |-> [items |-> sels]]

\* alias: name
Aliased(a, field) == [field EXCEPT !.alias = [k |-> "Some", v |-> a]]

FragmentSpread(n, dirs) == [k |-> "FragmentSpread", fragment_name |-> n, directives |-> dirs]

InlineFragment(tc, dirs, sels) ==
    [k |-> "InlineFragment", type_condition |-> tc, directives |-> dirs,
     selection_set |-> [items |-> sels]]

On(n) == [k |-> "On", name |-> n]

VariableDefinition(n, t, dv) == [name |-> n, var_type |-> t, default_value |-> dv]

LeafValues ==
    << [k |-> "Int", v |-> "1"], [k |-> "Enum", v |-> "SIT"], [k |-> "Null"],
       [k |-> "Variable", v |-> "v"], [k |-> "String", v |-> "s"],
       [k |-> "Boolean", v |-> "true"], [k |-> "Float", v |-> "2.0"] >>

Pick(menu, r) == menu[(r % Len(menu)) + 1]

\* the entries of an Object value are a BTreeMap: ordered by key
RECURSIVE MkValue(_, _)
MkValue(d, r) ==
    IF d = 0 THEN Pick(LeafValues, r)
    ELSE CASE r % 4 = 0 -> [k |-> "List", items |-> << MkValue(d - 1, r), MkValue(d - 1, r + 1) >>]
           [] r % 4 = 1 -> [k |-> "Object",
                            fields |-> << <<"bogus", MkValue(d - 1, r)>>,
                                          <<"name", MkValue(d - 1, r + 4)>>,
                                          <<"nested", MkValue(d - 1, r + 1)>>,
                                          <<"tags", MkValue(d - 1, r + 3)>> >>]
           [] r % 4 = 2 -> [k |-> "List", items |-> <<>>]
           [] OTHER -> Pick(LeafValues, r)

ArgumentMenu(r) ==
    << << <<"command", MkValue(0, r)>> >>,
       << <<"tags", MkValue(MaxValueDepth, 4 * r)>>, <<"filter", MkValue(MaxValueDepth, 4 * r + 1)>> >>,
       << <<"command", MkValue(MaxValueDepth, 4 * r)>>, <<"unknownArg", MkValue(MaxValueDepth, r)>> >>,
       << <<"filter", MkValue(MaxValueDepth, 4 * r + 2)>> >> >>

DirectiveMenu(r) ==
    << <<>>,
       << Directive("include", << <<"if", MkValue(0, r + 3)>> >>) >>,
       << Directive("tag", << <<"names", MkValue(MaxValueDepth, 4 * r)>>,
                              <<"filter", MkValue(MaxValueDepth, 4 * r + 1)>> >>),
          Directive("unknownDirective", << <<"x", MkValue(MaxValueDepth, r)>> >>) >> >>

LeafSelections(r) ==
    << Field("name", <<>>, <<>>, <<>>),
       FragmentSpread("F1", Pick(DirectiveMenu(r), r)),
       Field("doesKnow", Pick(ArgumentMenu(r), r), Pick(DirectiveMenu(r), r + 1), <<>>),
       Aliased("name", Field("unknownField", Pick(ArgumentMenu(r), r + 1), <<>>, <<>>)),
       FragmentSpread("Missing", <<>>) >>

RECURSIVE MkSelection(_, _, _)
MkSelection(d, w, r) ==
    LET sub == [i \in 1..w |-> MkSelection(d - 1, w, r + i)]
    IN  IF d = 0 THEN Pick(LeafSelections(r), r)
        ELSE CASE r % 8 = 0 -> Field("mother", <<>>, Pick(DirectiveMenu(r), r), sub)
               [] r % 8 = 1 -> InlineFragment(On("Dog"), Pick(DirectiveMenu(r), r), sub)
               [] r % 8 = 2 -> InlineFragment(None, Pick(DirectiveMenu(r), r + 1), sub)
               [] r % 8 = 3 -> Aliased("mother",
                                       Field("friends", <<>>, Pick(DirectiveMenu(r), r + 1), sub))
               [] r % 8 = 4 -> InlineFragment(On("UnknownType"), <<>>, sub)
               [] r % 8 = 5 -> Field("unknownField", Pick(ArgumentMenu(r), r), <<>>, sub)
               [] r % 8 = 6 -> InlineFragment(On("Being"), <<>>, sub)
               [] OTHER -> Pick(LeafSelections(r), r)

MkSelections(d, w, r) == [i \in 1..w |-> MkSelection(d, w, r + i - 1)]

VariableMenu(r) ==
    << <<>>,
       << VariableDefinition("v", NonNullType(NamedType("Boolean")), None) >>,
       << VariableDefinition("f", NonNullType(NamedType("Filter")),
                             MkValue(MaxValueDepth, 4 * r + 1)),
          VariableDefinition("l", NonNullType(ListType(NamedType("String"))),
                             MkValue(MaxValueDepth, 4 * r)),
          VariableDefinition("s", NamedType("String"), MkValue(MaxValueDepth, 4 * r + 1)) >>,
       << VariableDefinition("t", ListType(NamedType("String")), MkValue(MaxValueDepth, 4 * r)),
          VariableDefinition("w", NonNullType(NamedType("Int")), None),
          VariableDefinition("u", NamedType("UnknownType"),
                             MkValue(MaxValueDepth, 4 * r + 1)) >> >>

OperationKinds == <<"Query", "SelectionSet", "Mutation", "Subscription">>

Operation(kind, n, vdefs, sels) ==
    [k |-> kind, name |-> n, variable_definitions |-> vdefs, directives |-> <<>>,
     selection_set |-> [items |-> sels]]

FragmentDefinition(n, tc, dirs, sels) ==
    [k |-> "Fragment", name |-> n, type_condition |-> On(tc), directives |-> dirs,
     selection_set |-> [items |-> sels]]

WithDirectives(node, dirs) == [node EXCEPT !.directives = dirs]

\* a bare selection set has neither variable definitions nor directives
MkOperation(d, w, r) ==
    LET kind == Pick(OperationKinds, r)
    IN  WithDirectives(
            Operation(kind, IF r % 3 = 0 THEN None ELSE On("op"),
                      IF kind = "SelectionSet" THEN <<>> ELSE Pick(VariableMenu(r), r),
                      << Field("dog", <<>>, <<>>, MkSelections(d, w, r)) >>),
            IF kind = "SelectionSet" THEN <<>> ELSE Pick(DirectiveMenu(r), r + 1))

MkDocument(d, w, r) ==
    [definitions |->
        << MkOperation(d, w, r),
           FragmentDefinition("F1", IF r % 5 = 4 THEN "UnknownType" ELSE "Dog",
                              Pick(DirectiveMenu(r), r + 2), MkSelections(d, w, r + 3)) >>
        \o (IF r % 2 = 1
            THEN << FragmentDefinition("F1", "Being", <<>>, <<>>), MkOperation(0, w, r + 1) >>
            ELSE <<>>)]

Rotations == 8

Documents ==
    { MkDocument(d, w, r) : d \in 0..MaxDepth, w \in 0..MaxWidth, r \in 0..(Rotations - 1) }

(***************************************************************************)
(* OperationVisitorContext.                                                *)
(***************************************************************************)
Some(x) == [k |-> "Some", v |-> x]

\* a map that keeps the first definition of a name
KnownFragmentsFirstKept(doc) ==
    LET defs == doc.definitions
        frags == {i \in 1..Len(defs) : defs[i].k = "Fragment"}
    IN  [n \in {defs[i].name : i \in frags} |->
            defs[CHOOSE i \in frags : /\ defs[i].name = n
                                      /\ \A j \in frags : defs[j].name = n => i <= j]]

\* HashMap::from_iter over the fragment definitions: a later definition of a
\* name replaces an earlier one
KnownFragments(doc) ==
    LET defs == doc.definitions
        frags == {i \in 1..Len(defs) : defs[i].k = "Fragment"}
    IN  [n \in {defs[i].name : i \in frags} |->
            defs[CHOOSE i \in frags : /\ defs[i].name = n
                                      /\ \A j \in frags : defs[j].name = n => j <= i]]

\* Vec::last().unwrap_or(&None)
LastOrNone(stack) == IF stack = <<>> THEN None ELSE Last(stack)

\* a scoped call that forgets to pop
PopForgotten(stack) == stack

\* Vec::pop
Pop(stack) == IF stack = <<>> THEN stack ELSE Front(stack)

current_type == LastOrNone(type_stack)

current_parent_type == LastOrNone(parent_type_stack)

current_type_literal == LastOrNone(type_literal_stack)

current_input_type_literal == LastOrNone(input_type_literal_stack)

\* a scoped call that resolves only a bare named literal
ResolvedEntryOfNamedOnly(sch, t) ==
    IF t.k = "NamedType" THEN type_by_name(sch, t.name) ELSE None

\* what with_type and with_input_type push on the stack of resolved types
ResolvedEntry(sch, t) == IF IsSome(t) THEN type_by_name(sch, inner_type(t)) ELSE None

\* a with_parent_type that captures the entry below the top of the type stack
ParentEntryBelowTop(types) == IF Len(types) > 1 THEN types[Len(types) - 1] ELSE None

\* what with_parent_type pushes
ParentEntry(types) == LastOrNone(types)

Depths ==
    [type |-> Len(type_stack), type_literal |-> Len(type_literal_stack),
     parent_type |-> Len(parent_type_stack), input_type |-> Len(input_type_stack),
     input_type_literal |-> Len(input_type_literal_stack)]

(***************************************************************************)
(* The walker's pending work.  A task is a call still to be made; a scoped *)
(* call (with_type, with_parent_type, with_input_type) leaves the task     *)
(* that pops what it pushed behind its body.                               *)
(***************************************************************************)
Hook(ph, kind, path) == [op |-> "hook", ph |-> ph, kind |-> kind, path |-> path]

\* a walker that calls a node's leave hook before it descends
BracketLeaveFirst(kind, path, body) ==
    <<Hook("enter", kind, path), Hook("leave", kind, path)>> \o body

Bracket(kind, path, body) == <<Hook("enter", kind, path)>> \o body \o <<Hook("leave", kind, path)>>

WithTypeTask(t, body) == [op |-> "with_type", t |-> t, body |-> body]

WithParentTypeTask(body) == [op |-> "with_parent_type", body |-> body]

WithInputTypeTask(t, body) == [op |-> "with_input_type", t |-> t, body |-> body]

VisitDirectivesTask(dirs, path) == [op |-> "visit_directives", directives |-> dirs, path |-> path]

VisitArgumentsTask(defs, args, path) ==
    [op |-> "visit_arguments", arguments_definition |-> defs, arguments |-> args, path |-> path]

VisitInputValueTask(v, path) == [op |-> "visit_input_value", input_value |-> v, path |-> path]

VisitSelectionSetTask(ss, path) ==
    [op |-> "visit_selection_set", selection_set |-> ss, path |-> path]

\* the path of a child node
VariablePath(p, j) == Append(p, 10 + j)

DirectivePath(p, j) == Append(p, 20 + j)

SelectionSetPath(p) == Append(p, 30)

ArgumentPath(p, j) == Append(p, 40 + j)

ValuePath(p) == Append(p, 50)

ObjectFieldPath(p, j) == Append(p, 60 + j)

Top == Head(kont)

Rest == Tail(kont)

Running == kont # <<>>

Done == kont = <<>> /\ ~panicked

Replace(tasks) == kont' = tasks \o Rest

StacksUnchanged ==
    UNCHANGED <<type_stack, parent_type_stack, input_type_stack, type_literal_stack,
                input_type_literal_stack>>

Frame ==
    UNCHANGED <<schema, operation, known_fragments, panicked, unwound, classified, valVars>>

\* validate() is not running
ValidateIdle ==
    /\ validation_plan = <<>>
    /\ outcome = 0
    /\ vpc = "idle"
    /\ rule_index = 0
    /\ validation_errors = <<>>
    /\ fragments = <<>>
    /\ hash_seed = <<>>
    /\ call = 0
    /\ first_result = <<>>
    /\ spread_path = <<>>
    /\ visited_frags = {}
    /\ cyc_kont = <<>>
    /\ rule_errors = <<>>
    /\ plan_kind = "none"
    /\ produced = <<>>

InitOver(schemas) ==
    /\ schema \in schemas
    /\ operation \in Documents
    /\ known_fragments = KnownFragments(operation)
    /\ type_stack = <<>>
    /\ parent_type_stack = <<>>
    /\ input_type_stack = <<>>
    /\ type_literal_stack = <<>>
    /\ input_type_literal_stack = <<>>
    /\ kont = << [op |-> "visit_document"] >>
    /\ trace = <<>>
    /\ panicked = FALSE
    /\ unwound = <<>>
    /\ classified = <<>>
    /\ ValidateIdle

Init == InitOver(Schemas)

(***************************************************************************)
(* The scoped calls.                                                       *)
(***************************************************************************)
WithType ==
    /\ Running /\ Top.op = "with_type"
    /\ type_stack' = Append(type_stack, ResolvedEntry(schema, Top.t))
    /\ type_literal_stack' = Append(type_literal_stack, Top.t)
    /\ Replace(Top.body \o << [op |-> "end_with_type", before |-> Depths] >>)
    /\ UNCHANGED <<parent_type_stack, input_type_stack, input_type_literal_stack, trace>>
    /\ Frame

EndWithType ==
    /\ Running /\ Top.op = "end_with_type"
    /\ type_literal_stack' = Pop(type_literal_stack)
    /\ type_stack' = Pop(type_stack)
    /\ Replace(<<>>)
    /\ UNCHANGED <<parent_type_stack, input_type_stack, input_type_literal_stack, trace>>
    /\ Frame

WithParentType ==
    /\ Running /\ Top.op = "with_parent_type"
    /\ parent_type_stack' = Append(parent_type_stack, ParentEntry(type_stack))
    /\ Replace(Top.body \o << [op |-> "end_with_parent_type", before |-> Depths] >>)
    /\ UNCHANGED <<type_stack, type_literal_stack, input_type_stack,
                   input_type_literal_stack, trace>>
    /\ Frame

EndWithParentType ==
    /\ Running /\ Top.op = "end_with_parent_type"
    /\ parent_type_stack' = Pop(parent_type_stack)
    /\ Replace(<<>>)
    /\ UNCHANGED <<type_stack, type_literal_stack, input_type_stack,
                   input_type_literal_stack, trace>>
    /\ Frame

WithInputType ==
    /\ Running /\ Top.op = "with_input_type"
    /\ input_type_stack' = Append(input_type_stack, ResolvedEntry(schema, Top.t))
    /\ input_type_literal_stack' = Append(input_type_literal_stack, Top.t)
    /\ Replace(Top.body \o << [op |-> "end_with_input_type", before |-> Depths] >>)
    /\ UNCHANGED <<type_stack, type_literal_stack, parent_type_stack, trace>>
    /\ Frame

EndWithInputType ==
    /\ Running /\ Top.op = "end_with_input_type"
    /\ input_type_literal_stack' = Pop(input_type_literal_stack)
    /\ input_type_stack' = Pop(input_type_stack)
    /\ Replace(<<>>)
    /\ UNCHANGED <<type_stack, type_literal_stack, parent_type_stack, trace>>
    /\ Frame

(***************************************************************************)
(* A hook of the visitor is called: it sees the context as it is now.      *)
(***************************************************************************)
HookCall(h) ==
    [ph |-> h.ph, kind |-> h.kind, path |-> h.path, depths |-> Depths,
     type |-> current_type, type_literal |-> current_type_literal,
     parent_type |-> current_parent_type,
     input_type |-> LastOrNone(input_type_stack),
     input_type_literal |-> current_input_type_literal]

CallHook ==
    /\ Running /\ Top.op = "hook"
    /\ trace' = Append(trace, HookCall(Top))
    /\ Replace(<<>>)
    /\ StacksUnchanged
    /\ Frame

\* the hook panics: the stack of calls is unwound; the scoped calls on it
\* never reach the statements after func(self)
ScopedCalls(tasks) ==
    SelectSeq(tasks, LAMBDA t : t.op \in {"end_with_type", "end_with_parent_type",
                                          "end_with_input_type"})

HookPanic ==
    /\ Running /\ Top.op = "hook"
    /\ panicked' = TRUE
    /\ unwound' = ScopedCalls(kont)
    /\ kont' = <<>>
    /\ StacksUnchanged
    /\ UNCHANGED <<schema, operation, known_fragments, trace, classified, valVars>>

(***************************************************************************)
(* The visit functions.  Each replaces its call by the calls its body      *)
(* makes, in order; a loop becomes one task per element.                   *)
(***************************************************************************)
VisitDocument ==
    /\ Running /\ Top.op = "visit_document"
    /\ Replace(Bracket("document", <<>>,
                       << [op |-> "visit_definitions", definitions |-> operation.definitions] >>))
    /\ StacksUnchanged /\ UNCHANGED trace /\ Frame

\* the name of the type a definition is walked under
SchemaTypeName(sch, def) ==
    CASE def.k = "Fragment" -> Some(def.type_condition.name)
      [] def.k \in {"Query", "SelectionSet"} -> Some(query_type(sch).name)
      [] def.k = "Mutation" ->
            IF IsSome(mutation_type(sch)) THEN Some(mutation_type(sch).name) ELSE None
      [] def.k = "Subscription" ->
            IF IsSome(subscription_type(sch)) THEN Some(subscription_type(sch).name) ELSE None

\* query_type() returns an object type, not an Option: visit_definitions takes
\* its name at once, and a schema without query root has none to return
QueryRootAbsent(sch, def) == def.k \in {"Query", "SelectionSet"} /\ IsNone(query_type(sch))

DefinitionTask(def, path) ==
    [op |-> IF def.k = "Fragment" THEN "visit_fragment_definition"
            ELSE "visit_operation_definition",
     node |-> def, path |-> path]

VisitDefinitions ==
    /\ Running /\ Top.op = "visit_definitions"
    /\ LET defs == Top.definitions
           name(i) == SchemaTypeName(schema, defs[i])
       IN  Replace([i \in 1..Len(defs) |->
                       IF QueryRootAbsent(schema, defs[i])
                       THEN [op |-> "query_type", path |-> <<i>>]
                       ELSE WithTypeTask(IF IsSome(name(i)) THEN NamedType(name(i).v) ELSE None,
                                         << DefinitionTask(defs[i], <<i>>) >>)])
    /\ StacksUnchanged /\ UNCHANGED trace /\ Frame

\* the loop of visit_definitions is at an operation whose query root the
\* schema does not hold: the lookup panics and the walk is unwound
QueryTypePanic ==
    /\ Running /\ Top.op = "query_type"
    /\ panicked' = TRUE
    /\ unwound' = ScopedCalls(kont)
    /\ kont' = <<>>
    /\ StacksUnchanged
    /\ UNCHANGED <<schema, operation, known_fragments, trace, classified, valVars>>

VisitVariableDefinitionsTask(vdefs, path) ==
    [op |-> "visit_variable_definitions", variables |-> vdefs, path |-> path]

\* a walker that visits the directives of the operation as well
OperationTasksWithDirectives(operation_definition, p) ==
    Bracket("operation_definition", p,
        << VisitVariableDefinitionsTask(operation_definition.variable_definitions, p),
           VisitDirectivesTask(operation_definition.directives, p),
           VisitSelectionSetTask(operation_definition.selection_set, SelectionSetPath(p)) >>)

\* the directives of the operation itself are not visited
OperationTasks(operation_definition, p) ==
    Bracket("operation_definition", p,
        << VisitVariableDefinitionsTask(operation_definition.variable_definitions, p),
           VisitSelectionSetTask(operation_definition.selection_set, SelectionSetPath(p)) >>)

VisitOperationDefinition ==
    /\ Running /\ Top.op = "visit_operation_definition"
    /\ Replace(OperationTasks(Top.node, Top.path))
    /\ StacksUnchanged /\ UNCHANGED trace /\ Frame

VisitFragmentDefinition ==
    /\ Running /\ Top.op = "visit_fragment_definition"
    /\ LET node == Top.node
           p == Top.path
       IN  Replace(Bracket("fragment_definition", p,
                << VisitDirectivesTask(node.directives, p),
                   VisitSelectionSetTask(node.selection_set, SelectionSetPath(p)) >>))
    /\ StacksUnchanged /\ UNCHANGED trace /\ Frame

\* a walker that pushes the declared type for the default value only
VariableDefinitionTaskAroundDefault(variable, p) ==
    WithInputTypeTask(None,
        Bracket("variable_definition", p,
            IF IsSome(variable.default_value)
            THEN << WithInputTypeTask(variable.var_type,
                        << VisitInputValueTask(variable.default_value, ValuePath(p)) >>) >>
            ELSE <<>>))

VariableDefinitionTask(variable, p) ==
    WithInputTypeTask(variable.var_type,
        Bracket("variable_definition", p,
            IF IsSome(variable.default_value)
            THEN << VisitInputValueTask(variable.default_value, ValuePath(p)) >>
            ELSE <<>>))

VisitVariableDefinitions ==
    /\ Running /\ Top.op = "visit_variable_definitions"
    /\ LET vs == Top.variables
       IN  Replace([j \in 1..Len(vs) |->
                       VariableDefinitionTask(vs[j], VariablePath(Top.path, j))])
    /\ StacksUnchanged /\ UNCHANGED trace /\ Frame

VisitDirectives ==
    /\ Running /\ Top.op = "visit_directives"
    /\ LET ds == Top.directives
           p(j) == DirectivePath(Top.path, j)
           def(j) == directive_by_name(schema, ds[j].name)
           directive_def_args(j) == IF IsSome(def(j)) THEN Some(def(j).arguments) ELSE None
       IN  Replace(Concat([j \in 1..Len(ds) |->
                Bracket("directive", p(j),
                    << VisitArgumentsTask(directive_def_args(j), ds[j].arguments, p(j)) >>)]))
    /\ StacksUnchanged /\ UNCHANGED trace /\ Frame

\* a walker that takes the type of the first argument definition
ArgTypeOfFirstDefinition(defs, n) ==
    IF IsSome(defs) /\ defs.v # <<>> THEN defs.v[1].value_type ELSE None

\* the declared type of the argument definition with the argument's name
ArgType(defs, n) ==
    IF IsSome(defs)
    THEN LET a == FindFirst(defs.v, n)
         IN  IF IsSome(a) THEN a.value_type ELSE None
    ELSE None

VisitArguments ==
    /\ Running /\ Top.op = "visit_arguments"
    /\ LET args == Top.arguments
           p(j) == ArgumentPath(Top.path, j)
       IN  Replace([j \in 1..Len(args) |->
                WithInputTypeTask(ArgType(Top.arguments_definition, args[j][1]),
                    Bracket("argument", p(j),
                        << VisitInputValueTask(args[j][2], ValuePath(p(j))) >>))])
    /\ StacksUnchanged /\ UNCHANGED trace /\ Frame

ValueHookKind(v) ==
    CASE v.k \in {"Boolean", "Float", "Int", "String"} -> "scalar_value"
      [] v.k = "Null" -> "null_value"
      [] v.k = "Enum" -> "enum_value"
      [] v.k = "Variable" -> "variable_value"
      [] v.k = "List" -> "list_value"
      [] v.k = "Object" -> "object_value"

VisitInputValue ==
    /\ Running /\ Top.op = "visit_input_value"
    /\ LET v == Top.input_value
           p == Top.path
       IN  Replace(Bracket(ValueHookKind(v), p,
                CASE v.k = "List" -> << [op |-> "list_items", items |-> v.items, path |-> p] >>
                  [] v.k = "Object" ->
                        [j \in 1..Len(v.fields) |->
                            [op |-> "object_field", sub_key |-> v.fields[j][1],
                             sub_value |-> v.fields[j][2], path |-> ObjectFieldPath(p, j)]]
                  [] OTHER -> <<>>))
    /\ StacksUnchanged /\ UNCHANGED trace /\ Frame

\* a walker that looks through a NonNull wrapper around the list
ElementTypeThroughNonNull(literal) ==
    CASE literal.k = "ListType" -> literal.of
      [] literal.k = "NonNullType" /\ literal.of.k = "ListType" -> literal.of.of
      [] OTHER -> None

\* the input type of a list's elements: one List layer of the literal unwrapped
ElementType(literal) == IF literal.k = "ListType" THEN literal.of ELSE None

VisitListItems ==
    /\ Running /\ Top.op = "list_items"
    /\ Replace(<< WithInputTypeTask(ElementType(current_input_type_literal),
                      [i \in 1..Len(Top.items) |->
                          VisitInputValueTask(Top.items[i], Append(Top.path, i))]) >>)
    /\ StacksUnchanged /\ UNCHANGED trace /\ Frame

\* a walker that finds the input object only under a bare named literal
ObjectFieldTypeOfNamedOnly(sch, literal, sub_key) ==
    LET t == IF literal.k = "NamedType" THEN type_by_name(sch, literal.name) ELSE None
        f == IF IsSome(t) THEN input_field_by_name(t, sub_key) ELSE None
    IN  IF IsSome(f) THEN f.value_type ELSE None

\* the input type of an object's entry: the input field of that name
ObjectFieldType(sch, literal, sub_key) ==
    LET t == IF IsSome(literal) THEN type_by_name(sch, inner_type(literal)) ELSE None
        f == IF IsSome(t) THEN input_field_by_name(t, sub_key) ELSE None
    IN  IF IsSome(f) THEN f.value_type ELSE None

VisitObjectField ==
    /\ Running /\ Top.op = "object_field"
    /\ Replace(<< WithInputTypeTask(
                      ObjectFieldType(schema, current_input_type_literal, Top.sub_key),
                      Bracket("object_field", Top.path,
                          << VisitInputValueTask(Top.sub_value, ValuePath(Top.path)) >>)) >>)
    /\ StacksUnchanged /\ UNCHANGED trace /\ Frame

VisitSelectionSet ==
    /\ Running /\ Top.op = "visit_selection_set"
    /\ LET items == Top.selection_set.items
       IN  Replace(<< WithParentTypeTask(
                Bracket("selection_set", Top.path,
                    [i \in 1..Len(items) |->
                        [op |-> "visit_selection", selection |-> items[i],
                         path |-> Append(Top.path, i)]])) >>)
    /\ StacksUnchanged /\ UNCHANGED trace /\ Frame

\* a walker that looks the field up by its response name
FieldTasksByAlias(parent, field, p) ==
    LET response_name == IF IsSome(field.alias) THEN field.alias.v ELSE field.name
        parent_type_def == IF IsSome(parent) THEN field_by_name(parent, response_name) ELSE None
        field_type == IF IsSome(parent_type_def) THEN parent_type_def.field_type ELSE None
        field_args == IF IsSome(parent_type_def) THEN Some(parent_type_def.arguments) ELSE None
    IN  << WithTypeTask(field_type,
               Bracket("field", p,
                   << VisitArgumentsTask(field_args, field.arguments, p),
                      VisitDirectivesTask(field.directives, p),
                      VisitSelectionSetTask(field.selection_set, SelectionSetPath(p)) >>)) >>

\* a walker that visits a field's directives before its arguments
FieldTasksDirectivesFirst(parent, field, p) ==
    LET parent_type_def == IF IsSome(parent) THEN field_by_name(parent, field.name) ELSE None
        field_type == IF IsSome(parent_type_def) THEN parent_type_def.field_type ELSE None
        field_args == IF IsSome(parent_type_def) THEN Some(parent_type_def.arguments) ELSE None
    IN  << WithTypeTask(field_type,
               Bracket("field", p,
                   << VisitDirectivesTask(field.directives, p),
                      VisitArgumentsTask(field_args, field.arguments, p),
                      VisitSelectionSetTask(field.selection_set, SelectionSetPath(p)) >>)) >>

\* a walker that pushes the type condition of the spread's target fragment
FragmentSpreadTasksUnderTarget(fragment_spread, p) ==
    << WithTypeTask(
           IF fragment_spread.fragment_name \in DOMAIN known_fragments
           THEN NamedType(known_fragments[fragment_spread.fragment_name].type_condition.name)
           ELSE None,
           Bracket("fragment_spread", p,
               << VisitDirectivesTask(fragment_spread.directives, p) >>)) >>

\* a walker that descends from a spread into the fragment it names, when that
\* is another definition
FragmentSpreadTasksIntoTarget(fragment_spread, p) ==
    LET defs == operation.definitions
        targets == {n \in 1..Len(defs) : /\ defs[n].k = "Fragment"
                                         /\ defs[n].name = fragment_spread.fragment_name
                                         /\ n # p[1]}
    IN  Bracket("fragment_spread", p,
            << VisitDirectivesTask(fragment_spread.directives, p) >>
            \o [n \in 1..Cardinality(targets) |->
                   LET t == CHOOSE m \in targets : Cardinality({x \in targets : x < m}) = n - 1
                   IN  VisitSelectionSetTask(defs[t].selection_set, SelectionSetPath(<<t>>))])

FieldTasks(parent, field, p) ==
    LET parent_type_def == IF IsSome(parent) THEN field_by_name(parent, field.name) ELSE None
        field_type == IF IsSome(parent_type_def) THEN parent_type_def.field_type ELSE None
        field_args == IF IsSome(parent_type_def) THEN Some(parent_type_def.arguments) ELSE None
    IN  << WithTypeTask(field_type,
               Bracket("field", p,
                   << VisitArgumentsTask(field_args, field.arguments, p),
                      VisitDirectivesTask(field.directives, p),
                      VisitSelectionSetTask(field.selection_set, SelectionSetPath(p)) >>)) >>

FragmentSpreadTasks(fragment_spread, p) ==
    Bracket("fragment_spread", p, << VisitDirectivesTask(fragment_spread.directives, p) >>)

\* a walker that pushes a type for every inline fragment
InlineFragmentTasksAlwaysPush(inline_fragment, p) ==
    << WithTypeTask(IF IsSome(inline_fragment.type_condition)
                    THEN NamedType(inline_fragment.type_condition.name) ELSE None,
           Bracket("inline_fragment", p,
               << VisitDirectivesTask(inline_fragment.directives, p),
                  VisitSelectionSetTask(inline_fragment.selection_set,
                                        SelectionSetPath(p)) >>)) >>

InlineFragmentTasks(inline_fragment, p) ==
    LET body == Bracket("inline_fragment", p,
                    << VisitDirectivesTask(inline_fragment.directives, p),
                       VisitSelectionSetTask(inline_fragment.selection_set,
                                             SelectionSetPath(p)) >>)
    IN  IF IsSome(inline_fragment.type_condition)
        THEN << WithTypeTask(NamedType(inline_fragment.type_condition.name), body) >>
        ELSE body

VisitSelection ==
    /\ Running /\ Top.op = "visit_selection"
    /\ LET sel == Top.selection
       IN  Replace(CASE sel.k = "Field" -> FieldTasks(current_parent_type, sel, Top.path)
                     [] sel.k = "FragmentSpread" -> FragmentSpreadTasks(sel, Top.path)
                     [] sel.k = "InlineFragment" -> InlineFragmentTasks(sel, Top.path))
    /\ StacksUnchanged /\ UNCHANGED trace /\ Frame

WalkNext ==
    \/ VisitDocument
    \/ VisitDefinitions
    \/ VisitOperationDefinition
    \/ VisitFragmentDefinition
    \/ VisitVariableDefinitions
    \/ VisitDirectives
    \/ VisitArguments
    \/ VisitInputValue
    \/ VisitListItems
    \/ VisitObjectField
    \/ VisitSelectionSet
    \/ VisitSelection
    \/ WithType
    \/ EndWithType
    \/ WithParentType
    \/ EndWithParentType
    \/ WithInputType
    \/ EndWithInputType
    \/ CallHook

Next == WalkNext

Spec == Init /\ [][Next]_vars

\* the walk with hooks that may panic, over schemas that may lack the roots
InitPanic == InitOver(Schemas \cup {NoRootSchema})

NextPanic == WalkNext \/ HookPanic \/ QueryTypePanic

SpecPanic == InitPanic /\ [][NextPanic]_vars

(***************************************************************************)
(* Properties of a walk.                                                   *)
(***************************************************************************)
Enters == {i \in 1..Len(trace) : trace[i].ph = "enter"}

Leaves == {i \in 1..Len(trace) : trace[i].ph = "leave"}

NoDepth == [type |-> 0, type_literal |-> 0, parent_type |-> 0, input_type |-> 0,
            input_type_literal |-> 0]

\* two consecutive hook calls of a depth-first walk: descend to a child, leave
\* a leaf, go on to a sibling, or return to the parent
WalkStep(a, b) ==
    CASE a.ph = "enter" /\ b.ph = "enter" -> b.path # <<>> /\ Front(b.path) = a.path
      [] a.ph = "enter" /\ b.ph = "leave" -> b.path = a.path /\ b.kind = a.kind
      [] a.ph = "leave" /\ b.ph = "enter" ->
            /\ a.path # <<>> /\ b.path # <<>>
            /\ Front(b.path) = Front(a.path) /\ b.path # a.path
      [] a.ph = "leave" /\ b.ph = "leave" -> a.path # <<>> /\ b.path = Front(a.path)

\* C3: when visit_document has returned, every visited node was entered once
\* and left once, its enter hook came before and its leave hook after every
\* hook of its descendants, and the hook trace is a properly nested bracket
\* sequence from enter_document to leave_document.
HooksProperlyNested ==
    Done =>
        /\ trace # <<>>
        /\ trace[1].ph = "enter" /\ trace[1].kind = "document" /\ trace[1].path = <<>>
        /\ Last(trace).ph = "leave" /\ Last(trace).kind = "document"
        /\ Last(trace).path = <<>>
        /\ \A i \in 1..(Len(trace) - 1) : WalkStep(trace[i], trace[i + 1])
        /\ Cardinality({trace[i].path : i \in Enters}) = Cardinality(Enters)
        /\ Cardinality({trace[i].path : i \in Leaves}) = Cardinality(Leaves)
        /\ {<<trace[i].kind, trace[i].path>> : i \in Leaves}
               = {<<trace[i].kind, trace[i].path>> : i \in Enters}

\* a finished walk that went through values, directives and nested selections
NestedWalkDone ==
    /\ Done
    /\ \E i \in Leaves : trace[i].kind = "object_field" /\ Len(trace[i].path) > 6
    /\ \E i \in Leaves : trace[i].kind = "inline_fragment"
    /\ \E i \in Leaves : trace[i].kind = "list_value"
    /\ \E i \in Leaves : trace[i].kind = "variable_definition"

\* C4: every node's leave hook sees the five stacks at the depth its enter
\* hook saw, and all five are empty at enter_document, at leave_document and
\* after visit_document has returned.
StacksBalanced ==
    Done =>
        /\ {<<trace[i].path, trace[i].depths>> : i \in Leaves}
               = {<<trace[i].path, trace[i].depths>> : i \in Enters}
        /\ trace[1].depths = NoDepth
        /\ Last(trace).depths = NoDepth
        /\ Depths = NoDepth

\* a finished walk whose hooks saw every stack non-empty
DeepWalkDone ==
    /\ Done
    /\ \E i \in Leaves :
          /\ trace[i].depths.type > 2
          /\ trace[i].depths.parent_type > 2
          /\ trace[i].depths.input_type > 1

AtHook == Running /\ Top.op = "hook"

ResolvesLiteral(sch, entry, literal) ==
    IF literal.k = "None" THEN entry.k = "None"
    ELSE entry = type_by_name(sch, inner_type(literal))

\* C5: at every hook call the type and type-literal stacks have equal depth,
\* so have the input-type and input-type-literal stacks, and the resolved
\* entry at each depth is the schema's type of the innermost name of the
\* literal at that depth (None for no literal).
StacksPaired ==
    AtHook =>
        /\ Len(type_stack) = Len(type_literal_stack)
        /\ Len(input_type_stack) = Len(input_type_literal_stack)
        /\ \A d \in 1..Len(type_stack) :
              ResolvesLiteral(schema, type_stack[d], type_literal_stack[d])
        /\ \A d \in 1..Len(input_type_stack) :
              ResolvesLiteral(schema, input_type_stack[d], input_type_literal_stack[d])

\* a hook called under wrapped literals that resolve
WrappedLiteralAtHook ==
    /\ AtHook
    /\ \E d \in 1..Len(input_type_literal_stack) :
          /\ input_type_literal_stack[d].k \in {"ListType", "NonNullType"}
          /\ input_type_stack[d].k # "None"
    /\ \E d \in 1..Len(type_literal_stack) :
          /\ type_literal_stack[d].k = "ListType"
          /\ type_stack[d].k = "Union"

\* C6: after a hook has panicked, the stacks are at the depth they had before
\* each scoped call the panic left.
PanicReleasesStacks ==
    panicked => \A c \in 1..Len(unwound) : Depths = unwound[c].before

\* C14: the walker never fails on a name that does not resolve: no step of a
\* walk is a failed lookup, an absent root type included.
WalkerNeverFailsOnUnresolved == [][~QueryTypePanic]_vars

SelectionKinds == {"field", "fragment_spread", "inline_fragment"}

\* C7: the hooks of every selection directly inside a selection set S see as
\* current parent type the current type S was entered under.
ParentTypeIsTypeOfSelectionSet ==
    Done =>
        \A i \in 1..Len(trace) :
            trace[i].kind \in SelectionKinds =>
                <<Front(trace[i].path), trace[i].parent_type>>
                    \in {<<trace[j].path, trace[j].type>> :
                            j \in {e \in Enters : trace[e].kind = "selection_set"}}

\* a finished walk in which a selection follows a sibling with a nested
\* selection set, under a parent type other than its own type
SiblingAfterNestedDone ==
    /\ Done
    /\ \E i \in Enters, j \in Leaves :
          /\ j < i
          /\ trace[i].kind \in SelectionKinds
          /\ trace[j].kind \in {"field", "inline_fragment"}
          /\ Front(trace[j].path) = Front(trace[i].path)
          /\ \E n \in 1..j : trace[n].kind = "selection_set" /\ Front(trace[n].path) = trace[j].path
          /\ trace[i].parent_type.k = "Object"
          /\ trace[i].type # trace[i].parent_type

\* the selection a hook's path names: a definition, then the selection sets
\* and the positions in them
RECURSIVE SelectionAt(_, _)
SelectionAt(node, p) ==
    IF p = <<>> THEN node
    ELSE SelectionAt(node.selection_set.items[p[2]], Tail(Tail(p)))

NodeOf(e) == SelectionAt(operation.definitions[e.path[1]], Tail(e.path))

Visited(kind, p) ==
    /\ \E i \in Enters : trace[i].kind = kind /\ trace[i].path = p
    /\ \E i \in Leaves : trace[i].kind = kind /\ trace[i].path = p

\* the definitions of a field name on a type
FieldsNamed(t, n) ==
    IF t.k \in {"Object", "Interface"}
    THEN {t.fields[j] : j \in {m \in 1..Len(t.fields) : t.fields[m].name = n}}
    ELSE {}

SubtreeVisited(f, p) ==
    /\ \A j \in 1..Len(f.arguments) : Visited("argument", ArgumentPath(p, j))
    /\ \A j \in 1..Len(f.directives) : Visited("directive", DirectivePath(p, j))
    /\ Visited("selection_set", SelectionSetPath(p))
    /\ \A j \in 1..Len(f.selection_set.items) :
          \E k \in SelectionKinds : Visited(k, Append(SelectionSetPath(p), j))

\* C17: the enter and leave hooks of a field selection see as current type
\* literal the result type of the field of that name (not of its alias) on the
\* current parent type, and as current type the schema's type of the literal's
\* innermost name; both are None when there is no parent type or no such
\* field, and the arguments, directives and nested selection set of the field
\* are visited all the same.
FieldTypeIsTypeOfNamedField ==
    Done =>
        \A i \in 1..Len(trace) :
            trace[i].kind = "field" =>
                LET f == NodeOf(trace[i])
                    defs == FieldsNamed(trace[i].parent_type, f.name)
                IN  /\ \A d \in defs : trace[i].type_literal = d.field_type
                    /\ defs = {} => trace[i].type_literal = None
                    /\ ResolvesLiteral(schema, trace[i].type, trace[i].type_literal)
                    /\ SubtreeVisited(f, trace[i].path)

\* a finished walk with a field whose alias names another field of its parent
\* type, and with a field that its parent type does not define, under no
\* parent type, whose arguments and nested selections were visited
AliasedAndUnknownFieldsDone ==
    /\ Done
    /\ \E i \in Enters :
          /\ trace[i].kind = "field"
          /\ IsSome(NodeOf(trace[i]).alias)
          /\ FieldsNamed(trace[i].parent_type, NodeOf(trace[i]).alias.v) # {}
          /\ trace[i].type_literal.k = "ListType"
    /\ \E i \in Enters :
          /\ trace[i].kind = "field"
          /\ IsSome(trace[i].parent_type)
          /\ IsNone(trace[i].type_literal)
          /\ NodeOf(trace[i]).arguments # <<>>
          /\ NodeOf(trace[i]).selection_set.items # <<>>
    /\ \E i \in Enters :
          /\ trace[i].kind = "field"
          /\ IsNone(trace[i].parent_type)
          /\ NodeOf(trace[i]).arguments # <<>>

IsPrefix(p, q) == Len(p) <= Len(q) /\ SubSeq(q, 1, Len(p)) = p

\* the hooks of the nodes below the node at p
Below(p) == {n \in 1..Len(trace) : IsPrefix(p, trace[n].path) /\ trace[n].path # p}

\* the place of a field's child in the source: arguments, directives, then
\* the selection set
SourceOrder(p, q) ==
    LET c == q[Len(p) + 1]
    IN  CASE c > 40 -> c - 40
          [] c = 30 -> 200
          [] OTHER -> 100 + (c - 20)

\* C18: the hooks of a field selection are enter_field, the hooks of its
\* arguments in source order, the hooks of its directives in source order, the
\* hooks of its nested selection set, leave_field, and no hook of these
\* arguments, directives or selections is called outside the pair.
FieldHooksInSourceOrder ==
    Done =>
        \A i \in Enters, j \in Leaves :
            (trace[i].kind = "field" /\ trace[j].kind = "field"
                /\ trace[j].path = trace[i].path) =>
                LET p == trace[i].path
                IN  /\ SubtreeVisited(NodeOf(trace[i]), p)
                    /\ \A n \in Below(p) : i < n /\ n < j
                    /\ \A n, m \in Below(p) :
                          SourceOrder(p, trace[n].path) < SourceOrder(p, trace[m].path)
                              => n < m

\* a finished walk with a field that has arguments and directives, and a field
\* that has directives and nested selections
FieldWithArgumentsAndDirectivesDone ==
    /\ Done
    /\ \E i \in Enters :
          /\ trace[i].kind = "field"
          /\ NodeOf(trace[i]).arguments # <<>>
          /\ NodeOf(trace[i]).directives # <<>>
          /\ NodeOf(trace[i]).directives[1].arguments # <<>>
    /\ \E i \in Enters :
          /\ trace[i].kind = "field"
          /\ Len(NodeOf(trace[i]).directives) > 1
          /\ NodeOf(trace[i]).selection_set.items # <<>>

\* the root type the schema holds for a kind of operation
RootTypeOfKind(sch, kind) ==
    LET name == CASE kind \in {"Query", "SelectionSet"} -> "Query"
                  [] kind = "Mutation" -> "Mutation"
                  [] kind = "Subscription" -> "Subscription"
        roots == {n \in 1..Len(sch.types) : sch.types[n].name = name}
    IN  IF roots = {} THEN None ELSE sch.types[CHOOSE n \in roots : TRUE]

\* the place of an operation's child in the source: variable definitions, then
\* the selection set
OperationOrder(q) == IF q[2] = 30 THEN 200 ELSE q[2] - 10

\* C19: an operation definition is walked under the root type of its kind;
\* its hooks are enter_operation_definition, the hooks of its variable
\* definitions in source order, the hooks of its selection set,
\* leave_operation_definition, and no directive hook is called for the
\* directives of the operation itself.
OperationHooksInOrder ==
    Done =>
        \A i \in Enters, j \in Leaves :
            (trace[i].kind = "operation_definition" /\ trace[j].path = trace[i].path) =>
                LET p == trace[i].path
                    node == operation.definitions[p[1]]
                IN  /\ trace[i].type = RootTypeOfKind(schema, node.k)
                    /\ trace[j].type = RootTypeOfKind(schema, node.k)
                    /\ trace[j].kind = "operation_definition"
                    /\ \A v \in 1..Len(node.variable_definitions) :
                          Visited("variable_definition", VariablePath(p, v))
                    /\ Visited("selection_set", SelectionSetPath(p))
                    /\ \A n \in Below(p) :
                          /\ i < n /\ n < j
                          /\ Len(trace[n].path) = 2 =>
                                trace[n].kind \in {"variable_definition", "selection_set"}
                    /\ \A n, m \in Below(p) :
                          OperationOrder(trace[n].path) < OperationOrder(trace[m].path)
                              => n < m

\* a finished walk of a bare selection set and of a mutation with variable
\* definitions and with directives of its own
OperationsWithDirectivesDone ==
    /\ Done
    /\ \E i \in Enters :
          /\ trace[i].kind = "operation_definition"
          /\ operation.definitions[trace[i].path[1]].k = "Mutation"
          /\ trace[i].type.k = "Object"
          /\ operation.definitions[trace[i].path[1]].directives # <<>>
          /\ Len(operation.definitions[trace[i].path[1]].variable_definitions) > 1
    /\ \E i \in Enters :
          /\ trace[i].kind = "operation_definition"
          /\ operation.definitions[trace[i].path[1]].k = "SelectionSet"
          /\ trace[i].type.k = "Object"

\* what a hook sees of the context
ContextSeen(e) ==
    [depths |-> e.depths, type |-> e.type, type_literal |-> e.type_literal,
     parent_type |-> e.parent_type, input_type |-> e.input_type,
     input_type_literal |-> e.input_type_literal]

DirectiveHookKinds ==
    {"directive", "argument", "object_field", "scalar_value", "null_value", "enum_value",
     "variable_value", "list_value", "object_value"}

\* C20: a fragment spread leaves the five stacks as they are: its hooks see
\* the context of the enclosing selection set, current type and current
\* parent type included; between enter_fragment_spread and
\* leave_fragment_spread only the hooks of the spread's own directives and of
\* their arguments are called, and no node of the target fragment definition
\* is visited because of the spread.
FragmentSpreadKeepsContext ==
    Done =>
        \A i \in Enters, j \in Leaves :
            (trace[i].kind = "fragment_spread" /\ trace[j].path = trace[i].path) =>
                LET p == trace[i].path
                    spread == NodeOf(trace[i])
                IN  /\ trace[j].kind = "fragment_spread"
                    /\ \E n \in Enters :
                          /\ trace[n].kind = "selection_set"
                          /\ trace[n].path = Front(p)
                          /\ ContextSeen(trace[i]) = ContextSeen(trace[n])
                          /\ ContextSeen(trace[j]) = ContextSeen(trace[n])
                    /\ \A d \in 1..Len(spread.directives) :
                          Visited("directive", DirectivePath(p, d))
                    /\ \A n \in (i + 1)..(j - 1) :
                          /\ n \in Below(p)
                          /\ trace[n].kind \in DirectiveHookKinds
                          /\ Len(trace[n].path) = Len(p) + 1 => trace[n].kind = "directive"
                    /\ Cardinality({n \in Enters : trace[n].kind = "fragment_definition"})
                          = Cardinality({n \in 1..Len(operation.definitions) :
                                            operation.definitions[n].k = "Fragment"})

\* a finished walk with a spread of a defined fragment that selects fields,
\* under a current type, with a directive that has an argument
SpreadOfDefinedFragmentDone ==
    /\ Done
    /\ \E i \in Enters :
          /\ trace[i].kind = "fragment_spread"
          /\ NodeOf(trace[i]).fragment_name \in DOMAIN known_fragments
          /\ NodeOf(trace[i]).directives # <<>>
          /\ NodeOf(trace[i]).directives[1].arguments # <<>>
          /\ IsSome(trace[i].type)
          /\ trace[i].depths.type > 2
          /\ \E n \in 1..Len(operation.definitions) :
                /\ operation.definitions[n].k = "Fragment"
                /\ operation.definitions[n].name = NodeOf(trace[i]).fragment_name
                /\ operation.definitions[n].selection_set.items # <<>>

\* the nodes of a document, counted over its syntax tree: a spread is one
\* node, whatever it names
RECURSIVE SumOf(_)
SumOf(q) == IF q = <<>> THEN 0 ELSE Head(q) + SumOf(Tail(q))

RECURSIVE ValueNodes(_)
ValueNodes(v) ==
    CASE v.k = "List" -> 1 + SumOf([i \in 1..Len(v.items) |-> ValueNodes(v.items[i])])
      [] v.k = "Object" ->
            1 + SumOf([i \in 1..Len(v.fields) |-> 1 + ValueNodes(v.fields[i][2])])
      [] OTHER -> 1

ArgumentNodes(args) == SumOf([i \in 1..Len(args) |-> 1 + ValueNodes(args[i][2])])

DirectiveNodes(dirs) == SumOf([i \in 1..Len(dirs) |-> 1 + ArgumentNodes(dirs[i].arguments)])

RECURSIVE SelectionSetNodes(_)
SelectionSetNodes(ss) ==
    1 + SumOf([i \in 1..Len(ss.items) |->
            LET sel == ss.items[i]
            IN  CASE sel.k = "Field" ->
                        1 + ArgumentNodes(sel.arguments) + DirectiveNodes(sel.directives)
                          + SelectionSetNodes(sel.selection_set)
                  [] sel.k = "FragmentSpread" -> 1 + DirectiveNodes(sel.directives)
                  [] sel.k = "InlineFragment" ->
                        1 + DirectiveNodes(sel.directives)
                          + SelectionSetNodes(sel.selection_set)])

VariableNodes(vdefs) ==
    SumOf([i \in 1..Len(vdefs) |->
              1 + (IF IsSome(vdefs[i].default_value)
                   THEN ValueNodes(vdefs[i].default_value) ELSE 0)])

DefinitionNodes(def) ==
    IF def.k = "Fragment"
    THEN 1 + DirectiveNodes(def.directives) + SelectionSetNodes(def.selection_set)
    ELSE 1 + VariableNodes(def.variable_definitions) + SelectionSetNodes(def.selection_set)

VisitedNodes(doc) ==
    1 + SumOf([i \in 1..Len(doc.definitions) |-> DefinitionNodes(doc.definitions[i])])

\* the walk is one call: a step that can be taken is taken
SpecFair == Init /\ [][Next]_vars /\ WF_vars(Next)

\* C21: visit_document returns for every document, whatever its fragments
\* spread: every node was entered once and left once, so the hooks called are
\* twice the nodes of the document's syntax tree.
WalkTerminates ==
    <>(/\ Done
       /\ Len(trace) = 2 * VisitedNodes(operation)
       /\ Cardinality({trace[i].path : i \in Enters}) = VisitedNodes(operation)
       /\ Cardinality({trace[i].path : i \in Leaves}) = VisitedNodes(operation))

\* a finished walk of a document with a fragment that spreads itself and with
\* a spread of a fragment that is not defined
SelfSpreadingFragmentWalked ==
    /\ Done
    /\ \E i, j \in Enters :
          /\ trace[i].kind = "fragment_spread" /\ trace[j].kind = "fragment_spread"
          /\ operation.definitions[trace[i].path[1]].k = "Fragment"
          /\ NodeOf(trace[i]).fragment_name = operation.definitions[trace[i].path[1]].name
          /\ operation.definitions[trace[i].path[1]].selection_set.items # <<>>
          /\ NodeOf(trace[j]).fragment_name \notin DOMAIN known_fragments

\* the schema's type of a name, None for a name it does not define
TypeNamed(sch, n) ==
    LET found == {m \in 1..Len(sch.types) : sch.types[m].name = n}
    IN  IF found = {} THEN None ELSE sch.types[CHOOSE m \in found : TRUE]

\* the hooks of the selections directly inside the selection set of the node
\* at p
SelectionsOf(p) ==
    {n \in 1..Len(trace) : /\ trace[n].kind \in SelectionKinds
                            /\ Front(trace[n].path) = SelectionSetPath(p)}

DirectivesBeforeSelectionSet(p) ==
    \A n, m \in Below(p) :
        (trace[n].path[Len(p) + 1] # 30 /\ trace[m].path[Len(p) + 1] = 30) => n < m

\* C22: the hooks of a fragment definition and of an inline fragment with
\* type condition T see as current type the schema's type named T (None for
\* an unknown name), which is the parent type of the selections of the
\* fragment; an inline fragment without type condition pushes no type and its
\* selections have the parent type the inline fragment has.  The directives
\* of the fragment are visited before its selection set.
FragmentTypeIsTypeCondition ==
    Done =>
        \A i \in 1..Len(trace) :
            trace[i].kind \in {"fragment_definition", "inline_fragment"} =>
                LET p == trace[i].path
                    node == NodeOf(trace[i])
                IN  /\ IsSome(node.type_condition) =>
                          /\ trace[i].type = TypeNamed(schema, node.type_condition.name)
                          /\ \A n \in SelectionsOf(p) :
                                trace[n].parent_type
                                    = TypeNamed(schema, node.type_condition.name)
                    /\ IsNone(node.type_condition) =>
                          /\ \E n \in Enters :
                                /\ trace[n].kind = "selection_set"
                                /\ trace[n].path = Front(p)
                                /\ ContextSeen(trace[i]) = ContextSeen(trace[n])
                          /\ \A n \in SelectionsOf(p) :
                                trace[n].parent_type = trace[i].parent_type
                    /\ \A d \in 1..Len(node.directives) :
                          Visited("directive", DirectivePath(p, d))
                    /\ Visited("selection_set", SelectionSetPath(p))
                    /\ DirectivesBeforeSelectionSet(p)

\* a finished walk with a fragment definition, an inline fragment on a type
\* other than its parent type and one without type condition, each with
\* selections, and with a fragment on an unknown type
FragmentsOfEachKindDone ==
    /\ Done
    /\ \E i \in Enters :
          /\ trace[i].kind = "fragment_definition"
          /\ IsSome(trace[i].type)
          /\ SelectionsOf(trace[i].path) # {}
    /\ \E i \in Enters :
          /\ trace[i].kind \in {"fragment_definition", "inline_fragment"}
          /\ IsSome(NodeOf(trace[i]).type_condition)
          /\ IsNone(trace[i].type)
    /\ \E i \in Enters :
          /\ trace[i].kind = "inline_fragment"
          /\ IsSome(NodeOf(trace[i]).type_condition)
          /\ IsSome(trace[i].type) /\ IsSome(trace[i].parent_type)
          /\ trace[i].type # trace[i].parent_type
          /\ SelectionsOf(trace[i].path) # {}
    /\ \E i \in Enters :
          /\ trace[i].kind = "inline_fragment"
          /\ IsNone(NodeOf(trace[i]).type_condition)
          /\ IsSome(trace[i].parent_type)
          /\ NodeOf(trace[i]).directives # <<>>
          /\ SelectionsOf(trace[i].path) # {}

\* the node a directive hook's path names
DirectiveAt(q) ==
    SelectionAt(operation.definitions[q[1]], Tail(Front(q))).directives[Last(q) - 20]

\* the arguments written at the field or directive a hook was called for
ArgumentsAt(e) ==
    IF e.kind = "directive" THEN DirectiveAt(e.path).arguments ELSE NodeOf(e).arguments

\* the argument definitions the schema holds for that field or directive
ArgumentDefinitionsAt(e) ==
    IF e.kind = "directive"
    THEN UNION {{schema.directives[m].arguments[a] :
                    a \in 1..Len(schema.directives[m].arguments)} :
                 m \in {x \in 1..Len(schema.directives) :
                           schema.directives[x].name = DirectiveAt(e.path).name}}
    ELSE UNION {{d.arguments[a] : a \in 1..Len(d.arguments)} :
                 d \in FieldsNamed(e.parent_type, NodeOf(e).name)}

DeclaredType(definitions, n) ==
    LET found == {d \in definitions : d.name = n}
    IN  IF found = {} THEN None ELSE (CHOOSE d \in found : TRUE).value_type

\* C23: the hooks of an argument and of its value see as current input type
\* literal the declared type of the argument definition of that name on the
\* definition of the field or directive, None when there is no such
\* definition; every argument is entered at the input depth of its siblings,
\* one above that of the field or directive.
ArgumentTypeIsDeclaredType ==
    Done =>
        \A o \in Enters :
            trace[o].kind \in {"field", "directive"} =>
                \A n \in 1..Len(trace) :
                    (trace[n].path # <<>> /\ Front(trace[n].path) = trace[o].path
                        /\ trace[n].kind = "argument") =>
                        LET args == ArgumentsAt(trace[o])
                            arg == args[Last(trace[n].path) - 40]
                            declared == DeclaredType(ArgumentDefinitionsAt(trace[o]), arg[1])
                        IN  /\ trace[n].input_type_literal = declared
                            /\ trace[n].depths.input_type = trace[o].depths.input_type + 1
                            /\ trace[n].depths.input_type_literal
                                  = trace[o].depths.input_type_literal + 1
                            /\ \A v \in 1..Len(trace) :
                                  trace[v].path = ValuePath(trace[n].path) =>
                                      /\ trace[v].input_type_literal = declared
                                      /\ trace[v].depths = trace[n].depths

\* a finished walk with two arguments of one field under different declared
\* types, an argument the field does not define next to one it defines, an
\* argument of a field without definition and one of an undefined directive
ArgumentsOfEachKindDone ==
    /\ Done
    /\ \E n, m \in Enters :
          /\ trace[n].kind = "argument" /\ trace[m].kind = "argument"
          /\ Front(trace[n].path) = Front(trace[m].path)
          /\ n < m
          /\ IsSome(trace[n].input_type_literal) /\ IsSome(trace[m].input_type_literal)
          /\ trace[n].input_type_literal # trace[m].input_type_literal
    /\ \E n, m \in Enters :
          /\ trace[n].kind = "argument" /\ trace[m].kind = "argument"
          /\ Front(trace[n].path) = Front(trace[m].path)
          /\ n < m
          /\ IsSome(trace[n].input_type_literal) /\ IsNone(trace[m].input_type_literal)
    /\ \E o, n \in Enters :
          /\ trace[o].kind = "field" /\ trace[n].kind = "argument"
          /\ Front(trace[n].path) = trace[o].path
          /\ IsNone(trace[o].type_literal)
    /\ \E o, n \in Enters :
          /\ trace[o].kind = "directive" /\ trace[n].kind = "argument"
          /\ Front(trace[n].path) = trace[o].path
          /\ ArgumentDefinitionsAt(trace[o]) = {}
          /\ IsNone(trace[n].input_type_literal)

\* the node a path names, step by step from a definition; prev is the step
\* that led to node
RECURSIVE NodeAt(_, _, _)
NodeAt(node, prev, p) ==
    IF p = <<>> THEN node
    ELSE LET c == Head(p)
             child == CASE c < 10 -> node.items[c]
                        [] c > 10 /\ c < 20 -> node.variable_definitions[c - 10]
                        [] c > 20 /\ c < 30 -> node.directives[c - 20]
                        [] c = 30 -> node.selection_set
                        [] c > 40 /\ c < 50 -> node.arguments[c - 40]
                        [] c = 50 -> IF prev > 10 /\ prev < 20 THEN node.default_value
                                     ELSE node[2]
                        [] c > 60 -> node.fields[c - 60]
         IN  NodeAt(child, c, Tail(p))

ValueAt(p) == NodeAt(operation.definitions[p[1]], 0, Tail(p))

ValueHookKinds ==
    {"scalar_value", "null_value", "enum_value", "variable_value", "list_value",
     "object_value"}

\* what the hooks of the node at p saw of the input type
InputSeenAt(p) ==
    {[literal |-> trace[n].input_type_literal, type |-> trace[n].input_type,
      depths |-> trace[n].depths] : n \in {m \in 1..Len(trace) : trace[m].path = p}}

Deeper(depths) ==
    [depths EXCEPT !.input_type = @ + 1, !.input_type_literal = @ + 1]

\* C24: enter_list_value and leave_list_value see the same input type; every
\* element of the list is visited one input depth below, under the literal
\* inside a List literal and under None for any other literal or none; after
\* the list the input stacks are as deep as before, for an empty list too.
ListElementsUnderElementType ==
    Done =>
        \A i \in Enters, j \in Leaves :
            (trace[i].kind = "list_value" /\ trace[j].path = trace[i].path) =>
                LET p == trace[i].path
                    literal == trace[i].input_type_literal
                    element == IF literal.k = "ListType" THEN literal.of ELSE None
                IN  /\ trace[j].kind = "list_value"
                    /\ ContextSeen(trace[j]) = ContextSeen(trace[i])
                    /\ \A n \in Below(p) : i < n /\ n < j
                    /\ \A x \in 1..Len(ValueAt(p).items) :
                          /\ Visited(ValueHookKind(ValueAt(p).items[x]), Append(p, x))
                          /\ InputSeenAt(Append(p, x))
                                = {[literal |-> element,
                                    type |-> IF IsSome(element)
                                             THEN TypeNamed(schema, inner_type(element))
                                             ELSE None,
                                    depths |-> Deeper(trace[i].depths)]}

\* a finished walk with lists of elements under a List literal, under a
\* NonNull literal around a List and under a named type, and an empty list
ListsOfEachKindDone ==
    /\ Done
    /\ \E i \in Enters :
          /\ trace[i].kind = "list_value" /\ ValueAt(trace[i].path).items # <<>>
          /\ trace[i].input_type_literal.k = "ListType"
    /\ \E i \in Enters :
          /\ trace[i].kind = "list_value" /\ ValueAt(trace[i].path).items # <<>>
          /\ trace[i].input_type_literal.k = "NonNullType"
          /\ trace[i].input_type_literal.of.k = "ListType"
    /\ \E i \in Enters :
          /\ trace[i].kind = "list_value" /\ ValueAt(trace[i].path).items # <<>>
          /\ trace[i].input_type_literal.k = "NamedType"
    /\ \E i \in Enters :
          /\ trace[i].kind = "list_value" /\ ValueAt(trace[i].path).items = <<>>

\* the input fields of the type a literal names
InputFieldsUnder(sch, literal) ==
    LET t == IF IsSome(literal) THEN TypeNamed(sch, inner_type(literal)) ELSE None
    IN  IF t.k = "InputObject" THEN {t.fields[m] : m \in 1..Len(t.fields)} ELSE {}

\* C25: the hooks of an object value are enter_object_value, then entry by
\* entry enter_object_field, the hooks of the entry's value and
\* leave_object_field, then leave_object_value; an entry and its value are
\* visited one input depth below the object, under the declared type of the
\* input field of the entry's key on the input object type that the object's
\* input type literal names, None when there is no such type or field.
ObjectFieldsUnderFieldType ==
    Done =>
        \A i \in Enters, j \in Leaves :
            (trace[i].kind = "object_value" /\ trace[j].path = trace[i].path) =>
                LET p == trace[i].path
                    entries == ValueAt(p).fields
                    declared(x) ==
                        DeclaredType(InputFieldsUnder(schema, trace[i].input_type_literal),
                                     entries[x][1])
                    seen(x) == [literal |-> declared(x),
                                type |-> IF IsSome(declared(x))
                                         THEN TypeNamed(schema, inner_type(declared(x)))
                                         ELSE None,
                                depths |-> Deeper(trace[i].depths)]
                IN  /\ trace[j].kind = "object_value"
                    /\ ContextSeen(trace[j]) = ContextSeen(trace[i])
                    /\ \A n \in Below(p) : i < n /\ n < j
                    /\ \A n, m \in Below(p) :
                          trace[n].path[Len(p) + 1] < trace[m].path[Len(p) + 1] => n < m
                    /\ \A x \in 1..Len(entries) :
                          /\ Visited("object_field", ObjectFieldPath(p, x))
                          /\ Visited(ValueHookKind(entries[x][2]),
                                     ValuePath(ObjectFieldPath(p, x)))
                          /\ InputSeenAt(ObjectFieldPath(p, x)) = {seen(x)}
                          /\ InputSeenAt(ValuePath(ObjectFieldPath(p, x))) = {seen(x)}

\* a finished walk with objects under an input object type, with an entry it
\* defines and one it does not, under a type that is no input object and
\* under no input type
ObjectsOfEachKindDone ==
    /\ Done
    /\ \E i \in Enters, a, b \in Enters :
          /\ trace[i].kind = "object_value"
          /\ trace[a].kind = "object_field" /\ trace[b].kind = "object_field"
          /\ Front(trace[a].path) = trace[i].path /\ Front(trace[b].path) = trace[i].path
          /\ trace[i].input_type_literal.k = "NonNullType"
          /\ IsNone(trace[a].input_type_literal)
          /\ trace[b].input_type_literal.k = "ListType"
    /\ \E i \in Enters :
          /\ trace[i].kind = "object_value"
          /\ trace[i].input_type.k = "Scalar"
    /\ \E i \in Enters :
          /\ trace[i].kind = "object_value"
          /\ IsNone(trace[i].input_type_literal)

\* C26: the hooks of a variable definition are enter_variable_definition,
\* the hooks of its default value when it has one, and
\* leave_variable_definition, all under the variable's declared type as
\* current input type literal; every variable definition is entered one input
\* depth above the operation, and the selection set of the operation at the
\* input depth of the operation.
VariableUnderDeclaredType ==
    Done =>
        \A i \in Enters :
            trace[i].kind = "operation_definition" =>
                LET p == trace[i].path
                    vdefs == operation.definitions[p[1]].variable_definitions
                    seen(v) == [literal |-> vdefs[v].var_type,
                                type |-> TypeNamed(schema, inner_type(vdefs[v].var_type)),
                                depths |-> Deeper(trace[i].depths)]
                IN  /\ \A v \in 1..Len(vdefs) :
                          /\ Visited("variable_definition", VariablePath(p, v))
                          /\ InputSeenAt(VariablePath(p, v)) = {seen(v)}
                          /\ IF IsSome(vdefs[v].default_value)
                             THEN /\ Visited(ValueHookKind(vdefs[v].default_value),
                                             ValuePath(VariablePath(p, v)))
                                  /\ InputSeenAt(ValuePath(VariablePath(p, v))) = {seen(v)}
                             ELSE Below(VariablePath(p, v)) = {}
                          /\ \A n \in Below(VariablePath(p, v)), a \in Enters, b \in Leaves :
                                (trace[a].path = VariablePath(p, v)
                                    /\ trace[b].path = VariablePath(p, v)) => a < n /\ n < b
                    /\ \A n \in 1..Len(trace) :
                          trace[n].path = SelectionSetPath(p) =>
                              /\ trace[n].depths.input_type = trace[i].depths.input_type
                              /\ trace[n].depths.input_type_literal
                                    = trace[i].depths.input_type_literal
                              /\ IsNone(trace[n].input_type_literal)

\* a finished walk of an operation with a variable definition without
\* default value between two with default values, of different declared types
VariablesWithAndWithoutDefaultDone ==
    /\ Done
    /\ \E a, b, c \in Enters :
          /\ a < b /\ b < c
          /\ trace[a].kind = "variable_definition"
          /\ trace[b].kind = "variable_definition"
          /\ trace[c].kind = "variable_definition"
          /\ Front(trace[a].path) = Front(trace[c].path)
          /\ Below(trace[a].path) # {}
          /\ Below(trace[b].path) = {}
          /\ Below(trace[c].path) # {}
          /\ trace[a].input_type_literal # trace[c].input_type_literal
          /\ IsSome(trace[a].input_type) /\ IsSome(trace[b].input_type)

\* the places of the fragment definitions of a name in the document
FragmentsNamed(n) ==
    {i \in 1..Len(operation.definitions) :
        operation.definitions[i].k = "Fragment" /\ operation.definitions[i].name = n}

\* C27: throughout the walk the fragment map is the one built at
\* construction: it has an entry for a name exactly when the document has a
\* fragment definition of that name, the entry is the last such definition in
\* document order, and no entry is an operation.
FragmentMapIsTheDefinitions ==
    /\ \A i \in 1..Len(operation.definitions) :
          operation.definitions[i].k = "Fragment" =>
              operation.definitions[i].name \in DOMAIN known_fragments
    /\ \A n \in DOMAIN known_fragments :
          /\ FragmentsNamed(n) # {}
          /\ known_fragments[n].k = "Fragment"
          /\ \E i \in FragmentsNamed(n) :
                /\ known_fragments[n] = operation.definitions[i]
                /\ \A j \in FragmentsNamed(n) : j <= i

\* a finished walk of a document that defines a fragment name twice, before
\* an operation, with different definitions
DuplicateFragmentWalked ==
    /\ Done
    /\ \E n \in DOMAIN known_fragments :
          \E i, j \in FragmentsNamed(n), o \in 1..Len(operation.definitions) :
              /\ i < j /\ j < o
              /\ operation.definitions[o].k # "Fragment"
              /\ operation.definitions[i] # operation.definitions[j]
    /\ \E e \in Enters : trace[e].kind = "fragment_spread"

(***************************************************************************)
(* validate(schema, operation, plan).                                      *)
(***************************************************************************)
MaxFrags == 3       \* fragments of a generated document
MaxEntries == 2     \* fragment spreads of its operation
MaxPlan == 1        \* rules of a plan built with ValidationPlan::from
MaxOutcome == 2     \* behaviours of the rules outside the model

FragNames == <<"F1", "F2", "F3", "F4", "F5">>

\* the documents of the tests of validate.rs
CyclicFragmentDocument ==
    [definitions |->
        << Operation("SelectionSet", None, <<>>,
               << Field("dog", <<>>, <<>>,
                      << Field("nickname", <<>>, <<>>, <<>>),
                         FragmentSpread("bark", <<>>),
                         FragmentSpread("parents", <<>>) >>) >>),
           FragmentDefinition("bark", "Dog", <<>>,
               << Field("barkVolume", <<>>, <<>>, <<>>), FragmentSpread("parents", <<>>) >>),
           FragmentDefinition("parents", "Dog", <<>>,
               << Field("mother", <<>>, <<>>, << FragmentSpread("bark", <<>>) >>) >>) >>]

SelfReferenceDocument ==
    [definitions |->
        << Operation("Query", On("dog"), <<>>,
               << Field("dog", <<>>, <<>>, << FragmentSpread("DogFields", <<>>) >>) >>),
           FragmentDefinition("DogFields", "Dog", <<>>,
               << Field("mother", <<>>, <<>>, << FragmentSpread("DogFields", <<>>) >>),
                  Field("father", <<>>, <<>>, << FragmentSpread("DogFields", <<>>) >>) >>) >>]

FragmentLoopDocument ==
    [definitions |->
        << Operation("Query", On("dog"), <<>>,
               << Field("dog", <<>>, <<>>, << FragmentSpread("DogFields1", <<>>) >>) >>),
           FragmentDefinition("DogFields1", "Dog", <<>>,
               << Field("barks", <<>>, <<>>, <<>>), FragmentSpread("DogFields2", <<>>) >>),
           FragmentDefinition("DogFields2", "Dog", <<>>,
               << Field("barkVolume", <<>>, <<>>, <<>>), FragmentSpread("DogFields3", <<>>) >>),
           FragmentDefinition("DogFields3", "Dog", <<>>,
               << Field("name", <<>>, <<>>, <<>>), FragmentSpread("DogFields1", <<>>) >>) >>]

TestDocuments == {CyclicFragmentDocument, SelfReferenceDocument, FragmentLoopDocument}

\* generated documents: fragments F1..Fn where Fi spreads its successor and
\* (when closed) Fn spreads F1, an optional further spread <<from, to, pos>>
\* placed before (pos = 0) or after (pos = 1) that one, and an operation that
\* spreads the fragments named by entries
NoChord == <<0, 0, 0>>

RingSpread(n, closed, i) ==
    IF i < n THEN << FragmentSpread(FragNames[i + 1], <<>>) >>
    ELSE IF closed THEN << FragmentSpread(FragNames[1], <<>>) >> ELSE <<>>

\* the spread to the successor of an even fragment lies under a field
RingSelection(n, closed, i) ==
    IF i % 2 = 0 /\ RingSpread(n, closed, i) # <<>>
    THEN << Field("mother", <<>>, <<>>, RingSpread(n, closed, i)) >>
    ELSE RingSpread(n, closed, i)

ChordSelection(chord, i, pos) ==
    IF chord[1] = i /\ chord[3] = pos
    THEN << FragmentSpread(FragNames[chord[2]], <<>>) >>
    ELSE <<>>

MkFragment(n, closed, chord, i) ==
    FragmentDefinition(FragNames[i], "Dog", <<>>,
        ChordSelection(chord, i, 0) \o RingSelection(n, closed, i)
            \o ChordSelection(chord, i, 1))

MkCycleDocument(n, closed, chord, entries) ==
    [definitions |->
        << Operation("Query", On("q"), <<>>,
               << Field("dog", <<>>, <<>>,
                      [e \in 1..Len(entries) |-> FragmentSpread(FragNames[entries[e]], <<>>)]) >>) >>
        \o [i \in 1..n |-> MkFragment(n, closed, chord, i)]]

Chords(n) == {NoChord} \cup ((1..n) \X (1..n) \X {0, 1})

RECURSIVE SeqsUpTo(_, _)
SeqsUpTo(S, n) ==
    IF n = 0 THEN {<<>>}
    ELSE SeqsUpTo(S, n - 1) \cup {Append(q, x) : q \in {t \in SeqsUpTo(S, n - 1) : Len(t) = n - 1}, x \in S}

IsInjective(q) == \A i, j \in 1..Len(q) : q[i] = q[j] => i = j

CycleDocuments ==
    UNION { { MkCycleDocument(n, closed, chord, entries) :
                 closed \in BOOLEAN, chord \in Chords(n),
                 entries \in {q \in SeqsUpTo(1..n, MaxEntries) : IsInjective(q)} } :
            n \in 1..MaxFrags }

ValidateDocuments == CycleDocuments \cup TestDocuments

(***************************************************************************)
(* The plan.                                                               *)
(***************************************************************************)
\* a new plan that already holds a rule
new_with_rule == << "KnownTypeNames" >>

\* ValidationPlan::new(): no rules
new == <<>>

\* an add_rule that inserts at the front
add_rule_in_front(rules, rule) == <<rule>> \o rules

\* ValidationPlan::add_rule
add_rule(rules, rule) == Append(rules, rule)

\* a default plan without the rule that reports fragment cycles
default_rules_without_overlapping_fields ==
    << "LoneAnonymousOperation", "KnownTypeNames", "FieldsOnCorrectType",
       "KnownFragmentNamesRule", "FragmentsOnCompositeTypes", "NoUnusedFragments",
       "LeafFieldSelections", "UniqueOperationNames", "SingleFieldSubscriptions" >>

\* default_rules_validation_plan
default_rules_validation_plan ==
    LET p0 == <<>>
        p1 == add_rule(p0, "LoneAnonymousOperation")
        p2 == add_rule(p1, "KnownTypeNames")
        p3 == add_rule(p2, "FieldsOnCorrectType")
        p4 == add_rule(p3, "KnownFragmentNamesRule")
        p5 == add_rule(p4, "FragmentsOnCompositeTypes")
        p6 == add_rule(p5, "OverlappingFieldsCanBeMerged")
        p7 == add_rule(p6, "NoUnusedFragments")
        p8 == add_rule(p7, "LeafFieldSelections")
        p9 == add_rule(p8, "UniqueOperationNames")
        p10 == add_rule(p9, "SingleFieldSubscriptions")
    IN  p10

Rules ==
    {"LoneAnonymousOperation", "KnownTypeNames", "FieldsOnCorrectType",
     "KnownFragmentNamesRule", "FragmentsOnCompositeTypes", "OverlappingFieldsCanBeMerged",
     "NoUnusedFragments", "LeafFieldSelections", "UniqueOperationNames",
     "SingleFieldSubscriptions"}

\* the rules of the plans built with ValidationPlan::from
\* "ValidationRule" is a rule that keeps the trait's default validate
CustomRules == {"KnownTypeNames", "OverlappingFieldsCanBeMerged", "ValidationRule"}

(***************************************************************************)
(* The rules.  What a rule returns is outside src/: the fragment-cycle     *)
(* errors are modelled from the design (4.F, fragment-cycle detection) and *)
(* its scenarios; every other error is drawn by outcome.                   *)
(***************************************************************************)
RuleNumber(rule) ==
    CASE rule = "LoneAnonymousOperation" -> 1
      [] rule = "KnownTypeNames" -> 2
      [] rule = "FieldsOnCorrectType" -> 3
      [] rule = "KnownFragmentNamesRule" -> 4
      [] rule = "FragmentsOnCompositeTypes" -> 5
      [] rule = "OverlappingFieldsCanBeMerged" -> 6
      [] rule = "NoUnusedFragments" -> 7
      [] rule = "LeafFieldSelections" -> 8
      [] rule = "UniqueOperationNames" -> 9
      [] rule = "SingleFieldSubscriptions" -> 10

\* the errors a rule outside the model returns: none when outcome = 0
DrawnErrors(rule, o) ==
    [i \in 1..((o * RuleNumber(rule)) % (MaxOutcome + 1)) |-> [rule |-> rule, n |-> i]]

\* the fragment pre-pass: name -> fragment
locate_fragments(doc) == KnownFragments(doc)

\* the orders in which a hash map of these keys may be iterated
RECURSIVE SetToSeq(_)
SetToSeq(S) == IF S = {} THEN <<>> ELSE LET x == CHOOSE x \in S : TRUE IN <<x>> \o SetToSeq(S \ {x})

Reverse(q) == [i \in 1..Len(q) |-> q[Len(q) + 1 - i]]

HashOrders(keys) == {SetToSeq(keys), Reverse(SetToSeq(keys))}

\* the fragment spreads of a selection set in document order, those under
\* fields and inline fragments included
RECURSIVE SpreadsOf(_)
SpreadsOf(items) ==
    IF items = <<>> THEN <<>>
    ELSE LET sel == Head(items)
         IN  (IF sel.k = "FragmentSpread" THEN <<sel.fragment_name>>
              ELSE SpreadsOf(sel.selection_set.items)) \o SpreadsOf(Tail(items))

\* the spreads of a definition as tasks; at = <<name of the definition, position>>
SpreadTasks(def, owner) ==
    LET names == SpreadsOf(def.selection_set.items)
    IN  [i \in 1..Len(names) |-> [op |-> "spread", name |-> names[i], at |-> <<owner, i>>]]

(***************************************************************************)
(* NoUnusedFragments (4.F.6): the fragments reachable from the operations  *)
(* through spreads are used; the others are reported in document order.    *)
(***************************************************************************)
\* the spreads of the operations of the document, in document order
OperationSpreads(doc) ==
    Concat([i \in 1..Len(doc.definitions) |->
               IF doc.definitions[i].k = "Fragment" THEN <<>>
               ELSE SpreadsOf(doc.definitions[i].selection_set.items)])

\* the names reached from the spreads todo, each fragment followed once
RECURSIVE ReferencedFragments(_, _, _)
ReferencedFragments(frs, todo, seen) ==
    IF todo = <<>> THEN seen
    ELSE IF Head(todo) \in seen THEN ReferencedFragments(frs, Tail(todo), seen)
    ELSE ReferencedFragments(frs,
             (IF Head(todo) \in DOMAIN frs
              THEN SpreadsOf(frs[Head(todo)].selection_set.items) ELSE <<>>) \o Tail(todo),
             seen \cup {Head(todo)})

\* a rule that counts the spreads of every definition as uses
UsedFragmentsOfAnyDefinition(doc, frs) ==
    ReferencedFragments(frs,
        Concat([i \in 1..Len(doc.definitions) |->
                   SpreadsOf(doc.definitions[i].selection_set.items)]), {})

UsedFragments(doc, frs) == ReferencedFragments(frs, OperationSpreads(doc), {})

UnusedFragmentError(name) == [rule |-> "NoUnusedFragments", name |-> name]

no_unused_fragments(doc, frs) ==
    LET unused == SelectSeq(doc.definitions,
                      LAMBDA d : d.k = "Fragment" /\ d.name \notin UsedFragments(doc, frs))
    IN  [i \in 1..Len(unused) |-> UnusedFragmentError(unused[i].name)]

\* what a rule returns besides the fragment-cycle errors
RuleErrors(rule, doc, frs, o) ==
    IF rule = "NoUnusedFragments" THEN no_unused_fragments(doc, frs) ELSE DrawnErrors(rule, o)

\* a detection that starts from the fragments as the hash map iterates them
CycleRootsInHashOrder(doc, frs, seed) ==
    [i \in 1..Len(seed) |-> [op |-> "root", def |-> frs[seed[i]]]]

\* the definitions the detection starts from: all, in document order
CycleRoots(doc, frs, seed) ==
    [i \in 1..Len(doc.definitions) |-> [op |-> "root", def |-> doc.definitions[i]]]

IndexOf(q, x) == CHOOSE i \in 1..Len(q) : q[i] = x /\ \A j \in 1..(i - 1) : q[j] # x

\* a stack test that does not look at the top of the stack
OnStackBelowTop(q, x) == \E i \in 1..(Len(q) - 1) : q[i] = x

OnStack(q, x) == \E i \in 1..Len(q) : q[i] = x

\* a via-list that takes the whole stack
ViaPathWholeStack(stack, name) == stack

\* the via-list: the stack after the first occurrence of the name
ViaPath(stack, name) == SubSeq(stack, IndexOf(stack, name) + 1, Len(stack))

CycleError(name, via, at) ==
    [rule |-> "OverlappingFieldsCanBeMerged", name |-> name, via |-> via, at |-> at]

InRule == vpc = "in_rule" /\ cyc_kont # <<>>

ValidateFrame ==
    UNCHANGED <<walkVars, validation_plan, outcome, rule_index, validation_errors, fragments,
                hash_seed, call, first_result, plan_kind, produced, vpc>>

\* a definition is entered: an operation's spreads are expanded from an empty
\* stack, a fragment's from a stack holding its name, once
CycleEnterDefinition ==
    /\ InRule /\ Head(cyc_kont).op = "root"
    /\ LET def == Head(cyc_kont).def
       IN  IF def.k = "Fragment"
           THEN IF def.name \in visited_frags
                THEN /\ cyc_kont' = Tail(cyc_kont)
                     /\ UNCHANGED <<visited_frags, spread_path>>
                ELSE /\ visited_frags' = visited_frags \cup {def.name}
                     /\ spread_path' = Append(spread_path, def.name)
                     /\ cyc_kont' = SpreadTasks(def, def.name)
                                        \o << [op |-> "leave"] >> \o Tail(cyc_kont)
           ELSE /\ cyc_kont' = SpreadTasks(def, "") \o Tail(cyc_kont)
                /\ UNCHANGED <<visited_frags, spread_path>>
    /\ UNCHANGED rule_errors
    /\ ValidateFrame

\* a spread is entered: a name on the stack is reported and not expanded; a
\* fragment not yet expanded is pushed and expanded
CycleSpread ==
    /\ InRule /\ Head(cyc_kont).op = "spread"
    /\ LET name == Head(cyc_kont).name
       IN  IF OnStack(spread_path, name)
           THEN /\ rule_errors' = Append(rule_errors,
                        CycleError(name, ViaPath(spread_path, name), Head(cyc_kont).at))
                /\ cyc_kont' = Tail(cyc_kont)
                /\ UNCHANGED <<visited_frags, spread_path>>
           ELSE IF name \in visited_frags \/ name \notin DOMAIN fragments
                THEN /\ cyc_kont' = Tail(cyc_kont)
                     /\ UNCHANGED <<visited_frags, spread_path, rule_errors>>
                ELSE /\ visited_frags' = visited_frags \cup {name}
                     /\ spread_path' = Append(spread_path, name)
                     /\ cyc_kont' = SpreadTasks(fragments[name], name)
                                        \o << [op |-> "leave"] >> \o Tail(cyc_kont)
                     /\ UNCHANGED rule_errors
    /\ ValidateFrame

CycleLeave ==
    /\ InRule /\ Head(cyc_kont).op = "leave"
    /\ spread_path' = Front(spread_path)
    /\ cyc_kont' = Tail(cyc_kont)
    /\ UNCHANGED <<visited_frags, rule_errors>>
    /\ ValidateFrame

(***************************************************************************)
(* validate.                                                               *)
(***************************************************************************)
\* a collect that puts the errors of the next rule in front
CollectInFront(errors, more) == more \o errors

\* flat_map(..).collect(): the errors of the next rule follow those collected
Collect(errors, more) == errors \o more

\* no walk is in progress
WalkIdle ==
    /\ type_stack = <<>>
    /\ parent_type_stack = <<>>
    /\ input_type_stack = <<>>
    /\ type_literal_stack = <<>>
    /\ input_type_literal_stack = <<>>
    /\ kont = <<>>
    /\ trace = <<>>
    /\ panicked = FALSE
    /\ unwound = <<>>
    /\ classified = <<>>

InitValidate ==
    /\ schema = TestSchema
    /\ \/ operation \in CycleDocuments /\ outcome = 0
       \/ operation \in TestDocuments /\ outcome \in 0..MaxOutcome
    /\ known_fragments = KnownFragments(operation)
    /\ WalkIdle
    /\ validation_plan = <<>>
    /\ plan_kind = "none"
    /\ vpc = "plan"
    /\ rule_index = 0
    /\ validation_errors = <<>>
    /\ fragments = <<>>
    /\ hash_seed = <<>>
    /\ call = 1
    /\ first_result = <<>>
    /\ spread_path = <<>>
    /\ visited_frags = {}
    /\ cyc_kont = <<>>
    /\ rule_errors = <<>>
    /\ produced = <<>>

CycleIdle == UNCHANGED <<spread_path, visited_frags, cyc_kont, rule_errors>>

DefaultRulesValidationPlan ==
    /\ vpc = "plan"
    /\ validation_plan' = default_rules_validation_plan
    /\ plan_kind' = "default"
    /\ vpc' = "start"
    /\ CycleIdle
    /\ UNCHANGED <<walkVars, outcome, rule_index, validation_errors, fragments, hash_seed,
                   call, first_result, produced>>

ValidationPlanNew ==
    /\ vpc = "plan"
    /\ validation_plan' = new
    /\ plan_kind' = "new"
    /\ vpc' = "start"
    /\ CycleIdle
    /\ UNCHANGED <<walkVars, outcome, rule_index, validation_errors, fragments, hash_seed,
                   call, first_result, produced>>

ValidationPlanFrom ==
    /\ vpc = "plan"
    /\ \E rules \in SeqsUpTo(CustomRules, MaxPlan) : validation_plan' = rules
    /\ plan_kind' = "from"
    /\ vpc' = "start"
    /\ CycleIdle
    /\ UNCHANGED <<walkVars, outcome, rule_index, validation_errors, fragments, hash_seed,
                   call, first_result, produced>>

\* the fragment pre-pass and the context; the call's hash maps get their order
ValidateStart ==
    /\ vpc = "start"
    /\ fragments' = locate_fragments(operation)
    /\ hash_seed' \in HashOrders(DOMAIN locate_fragments(operation))
    /\ validation_errors' = <<>>
    /\ produced' = <<>>
    /\ rule_index' = 1
    /\ vpc' = "rules"
    /\ CycleIdle
    /\ UNCHANGED <<walkVars, validation_plan, outcome, call, first_result, plan_kind>>

\* an iteration over the rules that ends at the first rule with errors
AllRulesRunOrFailed(index, plan, errors) == index > Len(plan) \/ errors # <<>>

\* plan.rules.iter() is exhausted: whatever errors were collected so far
AllRulesRun(index, plan, errors) == index > Len(plan)

\* rule.validate(&validation_context) is called for the next rule of the plan
RunRule ==
    /\ vpc = "rules" /\ ~AllRulesRun(rule_index, validation_plan, validation_errors)
    /\ validation_plan[rule_index] # "ValidationRule"
    /\ LET rule == validation_plan[rule_index]
       IN  /\ cyc_kont' = IF rule = "OverlappingFieldsCanBeMerged"
                          THEN CycleRoots(operation, fragments, hash_seed)
                          ELSE <<>>
           /\ rule_errors' = <<>>
    /\ spread_path' = <<>>
    /\ visited_frags' = {}
    /\ vpc' = "in_rule"
    /\ UNCHANGED <<walkVars, validation_plan, outcome, rule_index, validation_errors,
                   fragments, hash_seed, call, first_result, plan_kind, produced>>

\* the rule has no validate of its own: the default of the trait panics and
\* validate does not return
Unimplemented ==
    /\ vpc = "rules" /\ ~AllRulesRun(rule_index, validation_plan, validation_errors)
    /\ validation_plan[rule_index] = "ValidationRule"
    /\ vpc' = "panicked"
    /\ CycleIdle
    /\ UNCHANGED <<walkVars, validation_plan, outcome, rule_index, validation_errors,
                   fragments, hash_seed, call, first_result, plan_kind, produced>>

\* the rule returns its errors and flat_map collects them
CollectRule ==
    /\ vpc = "in_rule" /\ cyc_kont = <<>>
    /\ LET returned == rule_errors \o RuleErrors(validation_plan[rule_index], operation,
                                               fragments, outcome)
       IN  /\ validation_errors' = Collect(validation_errors, returned)
           /\ produced' = Append(produced, returned)
    /\ rule_index' = rule_index + 1
    /\ rule_errors' = <<>>
    /\ vpc' = "rules"
    /\ UNCHANGED <<walkVars, validation_plan, outcome, fragments, hash_seed, call,
                   first_result, plan_kind, spread_path, visited_frags, cyc_kont>>

ValidateReturn ==
    /\ vpc = "rules" /\ AllRulesRun(rule_index, validation_plan, validation_errors)
    /\ vpc' = "returned"
    /\ CycleIdle
    /\ UNCHANGED <<walkVars, validation_plan, outcome, rule_index, validation_errors,
                   fragments, hash_seed, call, first_result, plan_kind, produced>>

\* validate is called a second time with the same schema, document and plan
ValidateAgain ==
    /\ vpc = "returned" /\ call = 1
    /\ first_result' = [errors |-> validation_errors, seed |-> hash_seed,
                        plan |-> validation_plan]
    /\ call' = 2
    /\ vpc' = "start"
    /\ CycleIdle
    /\ UNCHANGED <<walkVars, validation_plan, outcome, rule_index, validation_errors,
                   fragments, hash_seed, plan_kind, produced>>

\* a rule is added to the plan and validate is called with the longer plan
AddRule ==
    /\ vpc = "returned" /\ call = 1
    /\ Len(validation_plan) <= MaxPlan
    /\ \E rule \in CustomRules : validation_plan' = add_rule(validation_plan, rule)
    /\ first_result' = [errors |-> validation_errors, seed |-> hash_seed,
                        plan |-> validation_plan]
    /\ call' = 2
    /\ vpc' = "start"
    /\ CycleIdle
    /\ UNCHANGED <<walkVars, outcome, rule_index, validation_errors, fragments, hash_seed,
                   plan_kind, produced>>

NextValidate ==
    \/ DefaultRulesValidationPlan
    \/ ValidationPlanNew
    \/ ValidationPlanFrom
    \/ ValidateStart
    \/ RunRule
    \/ CycleEnterDefinition
    \/ CycleSpread
    \/ CycleLeave
    \/ Unimplemented
    \/ CollectRule
    \/ ValidateReturn
    \/ ValidateAgain
    \/ AddRule

SpecValidate == InitValidate /\ [][NextValidate]_vars

\* validate with the default plan, called twice
NextDefaultPlan ==
    \/ DefaultRulesValidationPlan
    \/ ValidateStart
    \/ RunRule
    \/ CycleEnterDefinition
    \/ CycleSpread
    \/ CycleLeave
    \/ CollectRule
    \/ ValidateReturn
    \/ ValidateAgain

\* validate is a synchronous call: a step that can be taken is taken
SpecValidateFair == InitValidate /\ [][NextDefaultPlan]_vars /\ WF_vars(NextDefaultPlan)

Returned == vpc = "returned"

(***************************************************************************)
(* Properties of validate.                                                 *)
(***************************************************************************)
RECURSIVE TotalLen(_)
TotalLen(seqs) == IF seqs = <<>> THEN 0 ELSE Len(Head(seqs)) + TotalLen(Tail(seqs))

\* where the errors of the i-th rule run start in the result
Offset(i) == TotalLen(SubSeq(produced, 1, i - 1))

\* C1: validate returns the errors of the plan's rules, every rule run once,
\* rule after rule in plan order, each rule's errors in the order the rule
\* returned them; nothing is dropped, duplicated or reordered.
ErrorsAreConcatenation ==
    Returned =>
        /\ Len(produced) = Len(validation_plan)
        /\ \A i \in 1..Len(produced) :
              /\ \A n \in 1..Len(produced[i]) :
                    /\ produced[i][n].rule = validation_plan[i]
                    /\ validation_errors[Offset(i) + n] = produced[i][n]
        /\ Len(validation_errors) = TotalLen(produced)

\* validate has returned the errors of several rules, two of one rule first
SeveralRulesReported ==
    /\ Returned
    /\ \E i, j \in 1..Len(produced) :
          i < j /\ Len(produced[i]) >= 2 /\ Len(produced[j]) >= 1

\* C2 as stated: the default plan holds the ten rules in the order 4.F.1 to
\* 4.F.10, OverlappingFieldsCanBeMerged last.
DefaultPlanInDesignOrder ==
    plan_kind = "default" =>
        validation_plan =
            << "LoneAnonymousOperation", "KnownTypeNames", "FieldsOnCorrectType",
               "KnownFragmentNamesRule", "FragmentsOnCompositeTypes", "NoUnusedFragments",
               "LeafFieldSelections", "UniqueOperationNames", "SingleFieldSubscriptions",
               "OverlappingFieldsCanBeMerged" >>

\* C2 amended: the default plan holds the ten rules, each once, in the order
\* of the add_rule calls: OverlappingFieldsCanBeMerged sixth, before
\* NoUnusedFragments.
DefaultPlanInCodeOrder ==
    plan_kind = "default" =>
        /\ validation_plan =
               << "LoneAnonymousOperation", "KnownTypeNames", "FieldsOnCorrectType",
                  "KnownFragmentNamesRule", "FragmentsOnCompositeTypes",
                  "OverlappingFieldsCanBeMerged", "NoUnusedFragments", "LeafFieldSelections",
                  "UniqueOperationNames", "SingleFieldSubscriptions" >>
        /\ \A r \in Rules :
              Cardinality({i \in 1..Len(validation_plan) : validation_plan[i] = r}) = 1

\* validate has run the default plan
DefaultPlanRun == Returned /\ plan_kind = "default" /\ Len(produced) = 10

FragmentIndices(doc) == {i \in 1..Len(doc.definitions) : doc.definitions[i].k = "Fragment"}

\* fragment a spreads fragment b
Spreads(doc, a, b) ==
    \E n \in 1..Len(SpreadsOf(doc.definitions[a].selection_set.items)) :
        SpreadsOf(doc.definitions[a].selection_set.items)[n] = doc.definitions[b].name

\* the cycles of the spread graph, each once: from its first fragment
FragmentCycles(doc) ==
    {q \in SeqsUpTo(FragmentIndices(doc), Cardinality(FragmentIndices(doc))) :
        /\ q # <<>>
        /\ IsInjective(q)
        /\ \A i \in 1..Len(q) : q[1] <= q[i]
        /\ \A i \in 1..Len(q) : Spreads(doc, q[i], q[(i % Len(q)) + 1])}

IsCycleError(e) == "via" \in DOMAIN e

\* the error names the fragments of cycle q, from any of them on
ReportsCycle(doc, e, q) ==
    LET names == <<e.name>> \o e.via
    IN  /\ Len(names) = Len(q)
        /\ \E r \in 0..(Len(q) - 1) :
              \A i \in 1..Len(q) : names[i] = doc.definitions[q[((i - 1 + r) % Len(q)) + 1]].name

ReportsOf(doc, q) ==
    {n \in 1..Len(validation_errors) :
        IsCycleError(validation_errors[n]) /\ ReportsCycle(doc, validation_errors[n], q)}

\* C9: validation of a document with a fragment cycle under the default plan
\* terminates, and returns a fragment-cycle error.
CycleIsReported ==
    (vpc = "start" /\ plan_kind = "default" /\ FragmentCycles(operation) # {})
        ~> (Returned /\ \E n \in 1..Len(validation_errors) : IsCycleError(validation_errors[n]))

\* the default plan has reported a cycle through three fragments
LongCycleReported ==
    /\ Returned /\ plan_kind = "default"
    /\ \E q \in FragmentCycles(operation) : Len(q) = 3
    /\ \E n \in 1..Len(validation_errors) :
          IsCycleError(validation_errors[n]) /\ Len(validation_errors[n].via) = 2

FollowsSpreads(frs, e) ==
    LET names == <<e.name>> \o e.via
    IN  /\ \A i \in 1..Len(names) : names[i] \in DOMAIN frs
        /\ IsInjective(names)
        /\ \A i \in 1..(Len(names) - 1) :
              OnStack(SpreadsOf(frs[names[i]].selection_set.items), names[i + 1])
        /\ e.at[1] = Last(names)
        /\ e.at[2] \in 1..Len(SpreadsOf(frs[Last(names)].selection_set.items))
        /\ SpreadsOf(frs[Last(names)].selection_set.items)[e.at[2]] = e.name

SpreadsAtMostOnce(doc) ==
    \A i \in FragmentIndices(doc) : Len(SpreadsOf(doc.definitions[i].selection_set.items)) <= 1

RECURSIVE CountSpreads(_, _)
CountSpreads(items, name) ==
    IF items = <<>> THEN 0
    ELSE LET sel == Head(items)
         IN  (IF sel.k = "FragmentSpread"
              THEN (IF sel.fragment_name = name THEN 1 ELSE 0)
              ELSE CountSpreads(sel.selection_set.items, name))
             + CountSpreads(Tail(items), name)

\* the errors that name fragment f without a via-list
SelfErrors(f) ==
    {n \in 1..Len(validation_errors) :
        /\ IsCycleError(validation_errors[n])
        /\ validation_errors[n].name = f
        /\ validation_errors[n].via = <<>>}

\* C11: a fragment whose own body holds k spreads of itself, directly or
\* under fields, gets exactly k cycle errors without a via-list, one for each
\* of these spreads.
SelfSpreadsReportedEach ==
    (Returned /\ plan_kind = "default") =>
        \A f \in DOMAIN fragments :
            /\ Cardinality(SelfErrors(f)) = CountSpreads(fragments[f].selection_set.items, f)
            /\ \A n, m \in SelfErrors(f) :
                  /\ validation_errors[n].at[1] = f
                  /\ validation_errors[n].at = validation_errors[m].at => n = m

\* a fragment with two spreads of itself under fields got its two errors
TwoSelfSpreadsReported ==
    /\ Returned /\ plan_kind = "default"
    /\ \E f \in DOMAIN fragments :
          /\ CountSpreads(fragments[f].selection_set.items, f) = 2
          /\ \A i \in 1..Len(fragments[f].selection_set.items) :
                fragments[f].selection_set.items[i].k = "Field"
          /\ Cardinality(SelfErrors(f)) = 2

(***************************************************************************)
(* Unused fragments.                                                       *)
(***************************************************************************)
\* fragment i is reached from an operation along a path of spreads
ReachedFromOperation(doc, i) ==
    \E q \in SeqsUpTo(FragmentIndices(doc), Cardinality(FragmentIndices(doc))) :
        /\ q # <<>>
        /\ IsInjective(q)
        /\ q[Len(q)] = i
        /\ \E d \in 1..Len(doc.definitions) :
              doc.definitions[d].k # "Fragment" /\ Spreads(doc, d, q[1])
        /\ \A n \in 1..(Len(q) - 1) : Spreads(doc, q[n], q[n + 1])

UnusedReports(name) ==
    {n \in 1..Len(validation_errors) :
        /\ validation_errors[n].rule = "NoUnusedFragments"
        /\ validation_errors[n].name = name}

\* C12: NoUnusedFragments reports a defined fragment, once, exactly when no
\* path of spreads leads from an operation to it; spreads in fragments that
\* are not reached do not count, and cycles of fragments change nothing.
UnusedIffNotReached ==
    (Returned /\ plan_kind = "default") =>
        \A i \in FragmentIndices(operation) :
            Cardinality(UnusedReports(operation.definitions[i].name))
                = IF ReachedFromOperation(operation, i) THEN 0 ELSE 1

\* two fragments that spread each other and are not reached were reported,
\* a third that is reached was not
UnusedCycleReported ==
    /\ Returned /\ plan_kind = "default"
    /\ \E i, j, u \in FragmentIndices(operation) :
          /\ i # j
          /\ Spreads(operation, i, j) /\ Spreads(operation, j, i)
          /\ ~ReachedFromOperation(operation, i) /\ ~ReachedFromOperation(operation, j)
          /\ Cardinality(UnusedReports(operation.definitions[i].name)) = 1
          /\ Cardinality(UnusedReports(operation.definitions[j].name)) = 1
          /\ ReachedFromOperation(operation, u)
          /\ UnusedReports(operation.definitions[u].name) = {}

EmptyPlanNoErrors ==
    (Returned /\ (validation_plan = <<>> \/ (plan_kind = "new" /\ call = 1))) =>
        validation_errors = <<>>

\* validate has returned from a plan of ValidationPlan::new() for a document
\* with a cycle of fragments and one never used
NewPlanReturnedForBadDocument ==
    /\ Returned /\ plan_kind = "new" /\ call = 1
    /\ FragmentCycles(operation) # {}
    /\ \E i \in FragmentIndices(operation) : ~ReachedFromOperation(operation, i)

\* C16: validate with a plan to which add_rule has added a rule returns the
\* errors of the plan before, unchanged, followed by the errors of the rule
\* added.
AddRuleOnlyAppends ==
    (Returned /\ call = 2 /\ first_result.plan # validation_plan) =>
        /\ Front(validation_plan) = first_result.plan
        /\ validation_errors = first_result.errors \o Last(produced)
        /\ \A n \in 1..Len(Last(produced)) : Last(produced)[n].rule = Last(validation_plan)

\* the plan before had reported, so has the rule added, another one
AddedRuleReported ==
    /\ Returned /\ call = 2
    /\ first_result.plan # <<>>
    /\ first_result.plan # validation_plan
    /\ Last(validation_plan) # validation_plan[1]
    /\ first_result.errors # <<>>
    /\ Last(produced) # <<>>

(***************************************************************************)
(* The classification of the schema's types.                               *)
(***************************************************************************)
MaxClassified == 2  \* type definitions classified in a run

TypeDefinitions == {TestSchema.types[i] : i \in 1..Len(TestSchema.types)}

InitClassify ==
    /\ schema = TestSchema
    /\ operation = SelfReferenceDocument
    /\ known_fragments = KnownFragments(operation)
    /\ WalkIdle
    /\ ValidateIdle

Classify ==
    /\ Len(classified) < MaxClassified
    /\ \E t \in TypeDefinitions : classified' = Append(classified, Classification(t))
    /\ UNCHANGED <<schema, operation, known_fragments, type_stack, parent_type_stack,
                   input_type_stack, type_literal_stack, input_type_literal_stack, kont,
                   trace, panicked, unwound, valVars>>

NextClassify == Classify

SpecClassify == InitClassify /\ [][NextClassify]_vars

\* C28: of is_composite_type and is_input_type exactly one holds for a type
\* definition: Object, Interface and Union are composite, Scalar, Enum and
\* InputObject are input; is_leaf_type holds for Scalar and Enum only, never
\* with is_composite_type; is_abstract_type holds for Interface and Union
\* only; from_type_definition returns a composite type exactly for the
\* composite definitions, of the definition's name, kind and abstractness.
ClassificationConsistent ==
    \A n \in 1..Len(classified) :
        LET c == classified[n]
        IN  /\ c.is_composite_type # c.is_input_type
            /\ c.is_composite_type <=> c.of.k \in {"Object", "Interface", "Union"}
            /\ c.is_input_type <=> c.of.k \in {"Scalar", "Enum", "InputObject"}
            /\ c.is_leaf_type <=> c.of.k \in {"Scalar", "Enum"}
            /\ ~(c.is_leaf_type /\ c.is_composite_type)
            /\ c.is_abstract_type <=> c.of.k \in {"Interface", "Union"}
            /\ IsSome(c.composite) <=> c.is_composite_type
            /\ IsSome(c.composite) =>
                  /\ composite_name(c.composite.v) = c.of.name
                  /\ c.composite.v.variant = c.of.k
                  /\ composite_is_abstract_type(c.composite.v) = c.is_abstract_type

\* a union and an input object have been classified
UnionAndInputObjectClassified ==
    /\ \E n \in 1..Len(classified) :
          classified[n].of.k = "Union" /\ IsSome(classified[n].composite)
    /\ \E n \in 1..Len(classified) :
          classified[n].of.k = "InputObject" /\ IsNone(classified[n].composite)

====
